---- MODULE Spec2Model ----
(***************************************************************************)
(* SlideWeaver: the slide-design validate-and-retry loop, the slide        *)
(* planner's parse-and-retry loop, and the synchronous and streaming       *)
(* generation pipelines that drive them and the PPTX converter.            *)
(*                                                                         *)
(* Text is modelled as a sequence of tokens.  A token is a record          *)
(* [t, a]: t is the kind of substring it stands for and a its argument.    *)
(*   fence            ```                                                  *)
(*   lang_html        the word html right after a fence (```html)          *)
(*   ws               white space                                          *)
(*   text/long        a run of more than 10 characters, first a letter     *)
(*   text/short       a shorter run of characters                          *)
(*   doctype/html     <!DOCTYPE html>                                      *)
(*   doctype/svg      <!DOCTYPE svg>  (a doctype that is not html)         *)
(*   html_open, head, body, html_close   <html> <head> <body> </html>      *)
(*   root_div/sid     <div id="slide-root" data-slide-id="sid">            *)
(*   root_div/""      <div id="slide-root">                                *)
(*   div_data/sid     <div data-slide-id="sid">                            *)
(*   div              <div>                                                *)
(*   p_open           <p>                                                  *)
(*   img_ext          <img src="https://...">                              *)
(*   img_local        <img src="/abs/path.png">                            *)
(***************************************************************************)
EXTENDS Integers, Sequences, FiniteSets, TLC

\* ------------------------------------------------------------------ bounds

\* Largest positive max_retries an agent is constructed with explicitly.
MaxGiven == 2

\* Largest number of slides in a generated plan.
MaxSlides == 2

\* --------------------------------------------------------------- constants

DEFAULT_MAX_RETRIES == 3

\* ------------------------------------------------------------------ tokens

Tok(t, a) == [t |-> t, a |-> a]

FENCE == Tok("fence", "")
LANG_HTML == Tok("lang_html", "")
WS == Tok("ws", "")
TEXT_LONG == Tok("text", "long")
TEXT_SHORT == Tok("text", "short")
DOCTYPE == Tok("doctype", "html")
DOCTYPE_SVG == Tok("doctype", "svg")
HTML_OPEN == Tok("html_open", "")
HEAD == Tok("head", "")
BODY == Tok("body", "")
HTML_CLOSE == Tok("html_close", "")
DIV == Tok("div", "")
P_OPEN == Tok("p_open", "")
IMG_EXT == Tok("img_ext", "")
IMG_LOCAL == Tok("img_local", "")

RootDiv(sid) == Tok("root_div", sid)

DivData(sid) == Tok("div_data", sid)

\* Slide ids by 1-based position in a plan.
SlideIdOf(i) == <<"s1", "s2", "s3", "s4">>[i]

\* ----------------------------------------------------------- text helpers

\* All slide ids a plan or a document can name.
SlideIds == {SlideIdOf(i) : i \in 1..(MaxSlides + 1)}

\* Index of the first token of seq, from `from` on, that is in toks; 0 when
\* there is none (str.find returning -1).
FindFrom(seq, from, toks) ==
    LET hits == {i \in from..Len(seq) : seq[i] \in toks}
    IN  IF hits = {} THEN 0 ELSE CHOOSE i \in hits : \A j \in hits : i <= j

\* The set of the elements of a sequence.
Range(seq) == {seq[k] : k \in 1..Len(seq)}

\* str.strip(): drop leading and trailing white space.
Strip(seq) ==
    LET keep == {i \in 1..Len(seq) : seq[i] # WS}
    IN  IF keep = {} THEN <<>>
        ELSE LET lo == CHOOSE i \in keep : \A j \in keep : i <= j
                 hi == CHOOSE i \in keep : \A j \in keep : i >= j
             IN  SubSeq(seq, lo, hi)

\* Position of the first ```html: a fence directly followed by the word html.
FindHtmlFence(seq) ==
    LET hits == {i \in 1..(Len(seq) - 1) :
                    seq[i] = FENCE /\ seq[i + 1] = LANG_HTML}
    IN  IF hits = {} THEN 0 ELSE CHOOSE i \in hits : \A j \in hits : i <= j

\* _extract_html, third rule: <!DOCTYPE html ...> through the next </html>;
\* fourth rule: the stripped response as it is.
ExtractDoctype(r) ==
    LET d == FindFrom(r, 1, {DOCTYPE})
        e == IF d = 0 THEN 0 ELSE FindFrom(r, d, {HTML_CLOSE})
    IN  IF d # 0 /\ e # 0 THEN Strip(SubSeq(r, d, e)) ELSE r

\* _extract_html, second rule: the content between the first ``` and the next.
ExtractGenericFence(r) ==
    LET i == FindFrom(r, 1, {FENCE})
        start == i + 1
        end == IF i = 0 THEN 0 ELSE FindFrom(r, start, {FENCE})
    IN  IF i # 0 /\ end > start
        THEN Strip(SubSeq(r, start, end - 1))
        ELSE ExtractDoctype(r)

\* _extract_html: the content between the first ```html and the next ```,
\* else the later rules.
ExtractHtml(response) ==
    LET r == Strip(response)
        i == FindHtmlFence(r)
        start == i + 2
        end == IF i = 0 THEN 0 ELSE FindFrom(r, start, {FENCE})
    IN  IF i # 0 /\ end > start
        THEN Strip(SubSeq(r, start, end - 1))
        ELSE ExtractGenericFence(r)

\* ------------------------------------------------------------- validation

\* A message: validation error, warning, or error entry.
\*   text   the fixed part of the message
\*   arg    the interpolated text
\*   slide  the slide id a caller prefixes it with ("" when none)
Msg(text, arg, slide) == [text |-> text, arg |-> arg, slide |-> slide]

\* `needle in html` for the substrings the tokens of toks contain.
Has(html, toks) == \E i \in 1..Len(html) : html[i] \in toks

\* Tokens containing id="slide-root".
RootIdToks == {RootDiv(s) : s \in SlideIds \cup {""}}

\* Tokens containing data-slide-id="<slide_id>".
DataSlideIdToks(slide_id) == {RootDiv(slide_id), DivData(slide_id)}

\* Tokens that open a div.
DivToks == {DIV} \cup RootIdToks \cup {DivData(s) : s \in SlideIds}

\* Matches of <div[^>]*>\s*([A-Za-z][^<]{10,}): a div, optional white
\* space, then a long text run.  The positions of the text runs matched.
UnwrappedMatches(html) ==
    {k \in 1..Len(html) :
        /\ html[k] = TEXT_LONG
        /\ \E i \in 1..(k - 1) :
              /\ html[i] \in DivToks
              /\ \A j \in (i + 1)..(k - 1) : html[j] = WS}

Cond(c, e) == IF c THEN <<e>> ELSE <<>>

\* _validate_html: the error list, in the order the checks run.
ValidateHtml(html, slide_id) ==
    Cond(~Has(html, RootIdToks), Msg("Missing #slide-root container", "", ""))
    \o Cond(~Has(html, DataSlideIdToks(slide_id)),
            Msg("Missing or incorrect data-slide-id", slide_id, ""))
    \o Cond(Has(html, {IMG_EXT}),
            Msg("Contains external URLs (http/https)", "", ""))
    \o Cond(~Has(html, {DOCTYPE, DOCTYPE_SVG}),
            Msg("Missing DOCTYPE declaration", "", ""))
    \o Cond(~Has(html, {HTML_OPEN}), Msg("Missing <html> tag", "", ""))
    \o Cond(~Has(html, {HEAD}), Msg("Missing <head> tag", "", ""))
    \o Cond(~Has(html, {BODY}), Msg("Missing <body> tag", "", ""))
    \o Cond(UnwrappedMatches(html) # {},
            Msg("DIV contains unwrapped text (wrap in <p> tags)", "long", ""))

\* ------------------------------------------------------ generator outputs

\* The ids the slides of a plan carry.
PlanSlideIds == {SlideIdOf(i) : i \in 1..MaxSlides}

\* A complete document for slide sid that meets the checklist.
GoodDoc(sid) ==
    <<DOCTYPE, HTML_OPEN, HEAD, BODY, RootDiv(sid), P_OPEN, TEXT_LONG,
      IMG_LOCAL, HTML_CLOSE>>

\* The responses the design generator can give to one call: a bare document
\* per slide id, a fenced document after prose that links to the web, a
\* document without the root container, one with an external image, one with
\* unwrapped text in a div, and prose without any document.
DesignResponses ==
    {GoodDoc(sid) : sid \in PlanSlideIds}
    \cup {<<IMG_EXT, WS, FENCE, LANG_HTML, WS>> \o GoodDoc("s1") \o <<WS, FENCE, WS>>,
          <<DOCTYPE, HTML_OPEN, HEAD, BODY, DIV, P_OPEN, TEXT_LONG, HTML_CLOSE>>,
          <<DOCTYPE, HTML_OPEN, HEAD, BODY, RootDiv("s1"), IMG_EXT, HTML_CLOSE>>,
          <<DOCTYPE, HTML_OPEN, HEAD, BODY, RootDiv("s1"), WS, TEXT_LONG, HTML_CLOSE>>,
          <<TEXT_LONG>>}

\* ---------------------------------------------------- SlideDesignerAgent

\* The max_retries argument of a constructor: None, or an integer.
NoneGiven == [none |-> TRUE, value |-> 0]

IntGiven(n) == [none |-> FALSE, value |-> n]

GivenValues == {NoneGiven} \cup {IntGiven(n) : n \in (-1)..MaxGiven}

\* `max_retries or DEFAULT_MAX_RETRIES`: None and 0 are falsy.
MaxRetriesOrDefault(given) ==
    IF given.none \/ given.value = 0 THEN DEFAULT_MAX_RETRIES ELSE given.value

\* SlideDesignResult.
SlideDesignResult(slide_id, html, passed, errs) ==
    [slide_id |-> slide_id, html_content |-> html,
     validation_passed |-> passed, validation_errors |-> errs]

NoDesignResult == SlideDesignResult("", <<>>, FALSE, <<>>)

\* The formatted design request of attempt 1 (slide spec, theme, rules and
\* resolved artifact data of the slide).
DesignRequest(slide_id) ==
    [kind |-> "request", slide_id |-> slide_id, errors |-> <<>>]

\* SLIDE_DESIGNER_RETRY_MESSAGE.format(errors=..., slide_id=...).
RetryMessage(errs, slide_id) ==
    [kind |-> "retry", slide_id |-> slide_id, errors |-> errs]

\* Mutant: every attempt sends the design request again.
AttemptMessage_Resend(attempt, slide_id, errs) == DesignRequest(slide_id)

\* The message of one attempt.
AttemptMessage(attempt, slide_id, errs) ==
    IF attempt = 1 THEN DesignRequest(slide_id) ELSE RetryMessage(errs, slide_id)

\* Mutant: one error left is let through.
ValidationOk_AtMostOne(errs) == Len(errs) <= 1

\* `len(validation_errors) == 0`.
ValidationOk(errs) == Len(errs) = 0

\* SlideDesignerAgent.__init__: the agent before any call.
NewDesigner(given) ==
    [given |-> given,
     max_retries |-> MaxRetriesOrDefault(given),
     pc |-> "idle",
     slide_id |-> "",
     attempt |-> 0,
     sent |-> <<>>,
     html_bound |-> FALSE,
     html_content |-> <<>>,
     validation_errors |-> <<>>,
     log |-> <<>>,
     exc |-> "",
     result |-> NoDesignResult]

\* design_slide up to the loop: the locals of a fresh call on slide_id.
\*   attempt   the loop variable (0 before the first iteration)
\*   sent      the messages passed to the agent in this call
\*   log       per finished attempt, the response, its html and its errors
EnterDesignSlide(dd, slide_id) ==
    [dd EXCEPT !.pc = "loop", !.slide_id = slide_id, !.attempt = 0,
               !.sent = <<>>, !.html_bound = FALSE, !.html_content = <<>>,
               !.validation_errors = <<>>, !.log = <<>>, !.exc = "",
               !.result = NoDesignResult]

\* Mutant: html_content and validation_errors are bound by the first
\* iteration only.
KeepAttempt_FirstOnly(dd, html, errs) ==
    IF dd.html_bound THEN dd
    ELSE [dd EXCEPT !.html_bound = TRUE, !.html_content = html,
                    !.validation_errors = errs]

\* The assignments of one iteration: html_content and validation_errors.
KeepAttempt(dd, html, errs) ==
    [dd EXCEPT !.html_bound = TRUE, !.html_content = html,
               !.validation_errors = errs]

\* One iteration of the loop of design_slide, the agent answering `response`.
DesignIteration(dd, response) ==
    LET attempt == dd.attempt + 1
        msg == AttemptMessage(attempt, dd.slide_id, dd.validation_errors)
        html == ExtractHtml(response)
        errs == ValidateHtml(html, dd.slide_id)
        seen == [KeepAttempt(dd, html, errs) EXCEPT
                    !.attempt = attempt,
                    !.sent = Append(@, msg),
                    !.log = Append(@, [response |-> response, html |-> html,
                                       errors |-> errs])]
    IN  IF ValidationOk(errs)
        THEN [seen EXCEPT !.pc = "returned",
                          !.result = SlideDesignResult(dd.slide_id, html, TRUE, <<>>)]
        ELSE seen

\* One iteration in which the agent call raises: nothing in design_slide
\* catches it.
DesignIterationRaises(dd) ==
    LET attempt == dd.attempt + 1
        msg == AttemptMessage(attempt, dd.slide_id, dd.validation_errors)
    IN  [dd EXCEPT !.attempt = attempt, !.sent = Append(@, msg),
                   !.pc = "raised", !.exc = "GeneratorError"]

\* After the loop: the result with the errors left; html_content is read
\* though no iteration may have bound it.
DesignAfterLoop(dd) ==
    IF dd.html_bound
    THEN [dd EXCEPT !.pc = "returned",
                    !.result = SlideDesignResult(dd.slide_id, dd.html_content,
                                                 FALSE, dd.validation_errors)]
    ELSE [dd EXCEPT !.pc = "raised", !.exc = "UnboundLocalError"]

\* ------------------------------------------------------ SlidePlannerAgent

\* More tokens, of the planner's responses:
\*   lang_json        the word json right after a fence (```json)
\*   json_plan/n      a JSON object that is a slide plan of n slides
\*   json_obj/notitle a JSON object without the required title
\*   json_obj/index0  a JSON object whose only slide has slide_index 0
\*   json_obj/dup     a plan whose two slides both have slide_index 1
\*   json_obj/gap     a plan whose two slides have slide_index 1 and 3
\*   json_obj/swap    a plan whose two slides have slide_index 2 and 1
\*   json_bad         text in braces that is not JSON
LANG_JSON == Tok("lang_json", "")
JSON_BAD == Tok("json_bad", "")
JSON_NOTITLE == Tok("json_obj", "notitle")
JSON_INDEX0 == Tok("json_obj", "index0")
JSON_DUP == Tok("json_obj", "dup")
JSON_GAP == Tok("json_obj", "gap")
JSON_SWAP == Tok("json_obj", "swap")

NumStr(n) == <<"0", "1", "2", "3", "4">>[n + 1]

JsonPlan(n) == Tok("json_plan", NumStr(n))

SlideSpec(slide_id, slide_index) ==
    [slide_id |-> slide_id, slide_index |-> slide_index]

\* json.loads of one object token: the fields SlidePlan reads.
JsonData(tok) ==
    CASE tok = JSON_NOTITLE ->
            [has_title |-> FALSE, slides |-> <<SlideSpec("s1", 1)>>]
      [] tok = JSON_INDEX0 ->
            [has_title |-> TRUE, slides |-> <<SlideSpec("s1", 0)>>]
      [] tok = JSON_DUP ->
            [has_title |-> TRUE, slides |-> <<SlideSpec("s1", 1), SlideSpec("s2", 1)>>]
      [] tok = JSON_GAP ->
            [has_title |-> TRUE, slides |-> <<SlideSpec("s1", 1), SlideSpec("s2", 3)>>]
      [] tok = JSON_SWAP ->
            [has_title |-> TRUE, slides |-> <<SlideSpec("s1", 2), SlideSpec("s2", 1)>>]
      [] OTHER ->
            LET n == CHOOSE k \in 0..(MaxSlides + 1) : tok = JsonPlan(k)
            IN  [has_title |-> TRUE,
                 slides |-> [i \in 1..n |-> SlideSpec(SlideIdOf(i), i)]]

\* Tokens that contain a brace.
BraceToks ==
    {JSON_BAD, JSON_NOTITLE, JSON_INDEX0, JSON_DUP, JSON_GAP, JSON_SWAP}
    \cup {JsonPlan(n) : n \in 0..(MaxSlides + 1)}

\* Tokens that json.loads decodes.
JsonToks == BraceToks \ {JSON_BAD}

\* SlidePlan(**data): title is required, every slide_index is >= 1.
SlidePlanValid(data) ==
    /\ data.has_title
    /\ \A i \in 1..Len(data.slides) : data.slides[i].slide_index >= 1

SlidePlan(data) == [title |-> "T", slides |-> data.slides]

NoPlan == [title |-> "", slides |-> <<>>]

\* text[start:-1]: the text without its last character; an object that
\* loses its closing brace no longer decodes.
DropLastChar(seq) ==
    IF seq = <<>> THEN <<>>
    ELSE IF seq[Len(seq)] \in BraceToks
         THEN SubSeq(seq, 1, Len(seq) - 1) \o <<JSON_BAD>>
         ELSE seq

\* text[start:end] where end is the result of find: -1 (here 0) cuts the
\* last character off.
SliceToFind(seq, start, end) ==
    IF end = 0 THEN DropLastChar(SubSeq(seq, start, Len(seq)))
    ELSE SubSeq(seq, start, end - 1)

\* Position of the first ```json.
FindJsonFence(seq) ==
    LET hits == {i \in 1..(Len(seq) - 1) :
                    seq[i] = FENCE /\ seq[i + 1] = LANG_JSON}
    IN  IF hits = {} THEN 0 ELSE CHOOSE i \in hits : \A j \in hits : i <= j

\* The part of _parse_slide_plan that unwraps a markdown code block.
UnwrapCodeBlock(response) ==
    LET r == Strip(response)
        j == FindJsonFence(r)
        f == FindFrom(r, 1, {FENCE})
    IN  IF j # 0
        THEN Strip(SliceToFind(r, j + 2, FindFrom(r, j + 2, {FENCE})))
        ELSE IF f # 0
             THEN Strip(SliceToFind(r, f + 1, FindFrom(r, f + 1, {FENCE})))
             ELSE r

\* _parse_slide_plan: [ok, plan, error]; error is the text of the ValueError.
ParseSlidePlan(response) ==
    LET r == UnwrapCodeBlock(response)
        braces == {i \in 1..Len(r) : r[i] \in BraceToks}
        first == CHOOSE i \in braces : \A k \in braces : i <= k
        last == CHOOSE i \in braces : \A k \in braces : i >= k
    IN  IF braces = {}
        THEN [ok |-> FALSE, plan |-> NoPlan, error |-> "No JSON object found in response"]
        ELSE IF first # last \/ r[first] \notin JsonToks
        THEN [ok |-> FALSE, plan |-> NoPlan, error |-> "Failed to parse JSON"]
        ELSE IF ~SlidePlanValid(JsonData(r[first]))
        THEN [ok |-> FALSE, plan |-> NoPlan, error |-> "Failed to validate slide plan"]
        ELSE [ok |-> TRUE, plan |-> SlidePlan(JsonData(r[first])), error |-> ""]

\* The responses the plan generator can give to one call.
PlanResponses ==
    {<<JsonPlan(n)>> : n \in 0..MaxSlides}
    \cup {<<TEXT_LONG, WS, FENCE, LANG_JSON, WS, JsonPlan(1), WS, FENCE>>,
          <<FENCE, WS, JsonPlan(MaxSlides), WS, FENCE, WS>>,
          <<FENCE, LANG_JSON, WS, JsonPlan(1)>>,
          <<JsonPlan(1), WS, JsonPlan(1)>>,
          <<TEXT_LONG>>,
          <<JSON_BAD>>,
          <<JSON_NOTITLE>>,
          <<JSON_INDEX0>>,
          <<JSON_DUP>>,
          <<JSON_GAP>>,
          <<JSON_SWAP>>}

\* SlidePlannerAgent.__init__.
NewPlanner(given) ==
    [given |-> given,
     max_retries |-> MaxRetriesOrDefault(given),
     pc |-> "idle",
     attempt |-> 0,
     log |-> <<>>,
     last_error |-> "",
     exc |-> "",
     result |-> NoPlan]

\* plan up to the loop.
\*   attempt   the loop variable (0 before the first iteration)
\*   log       per finished attempt, whether the call raised, and the response
EnterPlan(pp) ==
    [pp EXCEPT !.pc = "loop", !.attempt = 0, !.log = <<>>, !.last_error = "",
               !.exc = "", !.result = NoPlan]

\* Mutant: the first failed attempt raises.
PlanAttemptFailed_NoRetry(pp, error) ==
    [pp EXCEPT !.last_error = error, !.pc = "raised",
               !.exc = "Failed to generate valid slide plan"]

\* The except clause of the loop of plan: the error is kept, and the last
\* attempt raises.
PlanAttemptFailed(pp, error) ==
    IF pp.attempt = pp.max_retries
    THEN [pp EXCEPT !.last_error = error, !.pc = "raised",
                    !.exc = "Failed to generate valid slide plan"]
    ELSE [pp EXCEPT !.last_error = error]

\* One iteration of the loop of plan, the agent answering `response`.
PlanIteration(pp, response) ==
    LET attempt == pp.attempt + 1
        called == [pp EXCEPT !.attempt = attempt,
                             !.log = Append(@, [raised |-> FALSE,
                                                response |-> response])]
        parsed == ParseSlidePlan(response)
    IN  IF parsed.ok
        THEN [called EXCEPT !.pc = "returned", !.result = parsed.plan]
        ELSE PlanAttemptFailed(called, parsed.error)

\* One iteration in which the agent call raises: the except clause of the
\* loop catches it like a parse failure.
PlanIterationRaises(pp) ==
    LET attempt == pp.attempt + 1
        called == [pp EXCEPT !.attempt = attempt,
                             !.log = Append(@, [raised |-> TRUE,
                                                response |-> <<>>])]
    IN  PlanAttemptFailed(called, "GeneratorError")

\* After the loop, reached when it ran no iteration.
PlanAfterLoop(pp) ==
    [pp EXCEPT !.pc = "raised", !.exc = "Unexpected error in plan generation"]

\* ------------------------------------------------------ the PPTX converter

\* What running the converter can come to.
\*   no_script   JS_CONVERTER_SCRIPT does not exist (nothing is run)
\*   ok          exit code 0 and the output file exists
\*   nonzero     exit code other than 0, with the text on stderr
\*   no_output   exit code 0 and no output file
\*   timeout     subprocess.TimeoutExpired
\*   exception   subprocess.run raises something else
ConverterOutcomes ==
    {[kind |-> k, stderr |-> ""] :
        k \in {"no_script", "ok", "no_output", "timeout", "exception"}}
    \cup {[kind |-> "nonzero", stderr |-> "stderr text"]}

BuildResult(success, errs) ==
    [success |-> success, has_pptx |-> success, errors |-> errs]

NoBuildResult == BuildResult(FALSE, <<>>)

\* Mutant: the exit code is not looked at; a run that leaves no error but
\* the exit code counts as built.
BuildPptx_NoExitCheck(outcome) ==
    CASE outcome.kind = "no_script" ->
            BuildResult(FALSE, <<Msg("Converter script not found", "", "")>>)
      [] outcome.kind = "no_output" ->
            BuildResult(FALSE,
                <<Msg("Converter completed but PPTX file was not created", "", "")>>)
      [] outcome.kind = "timeout" ->
            BuildResult(FALSE, <<Msg("Converter timed out", "", "")>>)
      [] outcome.kind = "exception" ->
            BuildResult(FALSE, <<Msg("Build failed", "", "")>>)
      [] OTHER -> BuildResult(TRUE, <<>>)

\* OrchestratorAgent._build_pptx.
BuildPptx(outcome) ==
    CASE outcome.kind = "no_script" ->
            BuildResult(FALSE, <<Msg("Converter script not found", "", "")>>)
      [] outcome.kind = "nonzero" ->
            BuildResult(FALSE, <<Msg("Converter failed", outcome.stderr, "")>>)
      [] outcome.kind = "no_output" ->
            BuildResult(FALSE,
                <<Msg("Converter completed but PPTX file was not created", "", "")>>)
      [] outcome.kind = "timeout" ->
            BuildResult(FALSE, <<Msg("Converter timed out", "", "")>>)
      [] outcome.kind = "exception" ->
            BuildResult(FALSE, <<Msg("Build failed", "", "")>>)
      [] OTHER -> BuildResult(TRUE, <<>>)

\* Whether _build_pptx gets as far as subprocess.run.
ConverterInvoked(outcome) == outcome.kind # "no_script"

\* ------------------------------------- the library-driven renderer (main.py)

\* What the node driver started by render_html_to_pptx can do:
\*   no_workspace  package.json or node_modules is missing
\*   ok            exit code 0 and the output file exists
\*   nonzero       exit code other than 0, with text on stderr
\*   no_output     exit code 0 and no output file
\*   timeout       the 900 s timeout of run_command expires
RenderOutcomes ==
    {[kind |-> k, stderr |-> ""] :
        k \in {"no_workspace", "ok", "no_output", "timeout"}}
    \cup {[kind |-> "nonzero", stderr |-> "stderr text"]}

\* What a call gives back: the exception it raised, or a return code and
\* the captured stderr.
CommandResult(raised, returncode, stderr) ==
    [raised |-> raised, returncode |-> returncode, stderr |-> stderr]

\* run_command: subprocess.run with check=False; TimeoutExpired is raised
\* again, nothing else is looked at.
RunCommand(outcome) ==
    CASE outcome.kind = "timeout" -> CommandResult("TimeoutExpired", 0, "")
      [] outcome.kind = "nonzero" -> CommandResult("", 1, outcome.stderr)
      [] OTHER -> CommandResult("", 0, outcome.stderr)

\* render_html_to_pptx: the workspace checks, then run_command, whose
\* return code and stderr are handed back as they are.
RenderHtmlToPptx(outcome) ==
    IF outcome.kind = "no_workspace"
    THEN CommandResult("FileNotFoundError", 0, "")
    ELSE RunCommand(outcome)

\* Whether render_html_to_pptx gets as far as run_command.
RenderInvoked(outcome) == outcome.kind # "no_workspace"

\* How the process of main.py ends: its exit code, the exception that
\* escaped main (if any), and what it printed on stderr and stdout.
Process(exit_code, exc, stderr, stdout) ==
    [exit_code |-> exit_code, exc |-> exc, stderr |-> stderr, stdout |-> stdout]

NoProcess == Process(0, "", <<>>, <<>>)

\* main.py from the call of render_html_to_pptx on: an exception of the
\* call is not caught; a return code other than 0 is printed with stderr and
\* ends in sys.exit(1); anything else is printed as success.
MainAfterRender(res) ==
    CASE res.raised # "" -> Process(1, res.raised, <<>>, <<>>)
      [] res.returncode # 0 ->
            Process(1, "", <<Msg("Error converting to PowerPoint", res.stderr, "")>>,
                    <<>>)
      [] OTHER -> Process(0, "", <<>>, <<Msg("Success! Presentation saved to", "", "")>>)

\* -------------------------------------------------------------- variables

VARIABLES
    mode,   \* which entry point runs: "design", "plan", "sync", "stream",
            \* "cli", "session", "sweep", "extract", "validate",
            \* "request", "download", "conversation", "service",
            \* "runs" or "pair"
    d,      \* the SlideDesignerAgent and the locals of its design_slide call
    p,      \* the SlidePlannerAgent and the locals of its plan call
    o,      \* the locals of generate_presentation / generate_presentation_stream
    sm,     \* the SessionManager, its sessions and their directories
    fn      \* a helper function called on its own: its input and its results

vars == <<mode, d, p, o, sm, fn>>

PresentationResult(success, title, slide_count, has_pptx, limitations, errs) ==
    [success |-> success, title |-> title, slide_count |-> slide_count,
     has_pptx |-> has_pptx, limitations |-> limitations, errors |-> errs]

NoPresentationResult == PresentationResult(FALSE, "", 0, FALSE, <<>>, <<>>)

\* One item of the progress stream.
Event(event, index, payload) ==
    [event |-> event, index |-> index, payload |-> payload]

DONE == Event("[DONE]", 0, <<>>)

\* The locals of a run before its first statement.
\*   pc              where the run is
\*   slide_plan      the plan the planner returned
\*   i               slides of the plan the design loop is through with
\*   slides_dir      the files of the slides directory, name and content
\*   html_files      the names of the files written, in order
\*   errors, warnings
\*   converter_runs  per subprocess run, the slides directory it was given
\*                   and what the run came to
\*   design_calls    calls of design_slide made
\*   design_log      per call of design_slide, the slide and how it ended:
\*                   "passed", "failed" (validation errors left) or "raised"
\*   build_result    what _build_pptx returned
\*   result          the PresentationResult returned (sync)
\*   events          the items yielded (stream)
NewRun ==
    [pc |-> "start",
     slide_plan |-> NoPlan,
     i |-> 0,
     slides_dir |-> {},
     html_files |-> <<>>,
     errors |-> <<>>,
     warnings |-> <<>>,
     converter_runs |-> <<>>,
     design_calls |-> 0,
     design_log |-> <<>>,
     build_result |-> NoBuildResult,
     result |-> NoPresentationResult,
     events |-> <<>>,
     render_runs |-> <<>>,
     process |-> NoProcess]

\* f"{slide.slide_index:02d}_{slide.slide_id}.html".
FileName(slide) == [index |-> slide.slide_index, slide_id |-> slide.slide_id]

\* html_path.write_text(...): the file is created or overwritten.
WriteText(dir, name, content) ==
    {f \in dir : f.name # name} \cup {[name |-> name, content |-> content]}

\* Mutant: the run goes on to the build with no file written.
NoHtmlFiles_Never(html_files) == FALSE

\* `not html_files`.
NoHtmlFiles(html_files) == html_files = <<>>

\* Mutant: the validation errors of a failed result are dropped.
SlideWarnings_Dropped(res) == <<>>

\* "Slide {slide_id}: {err}" for each validation error of a failed result.
SlideWarnings(res) ==
    IF res.validation_passed THEN <<>>
    ELSE [k \in 1..Len(res.validation_errors) |->
            [res.validation_errors[k] EXCEPT !.slide = res.slide_id]]

\* The body of the per-slide try block after design_slide returned: the
\* warnings, the file and the list of files.
SlideDesigned(run, slide, res) ==
    [run EXCEPT !.warnings = @ \o SlideWarnings(res),
                !.slides_dir = WriteText(@, FileName(slide), res.html_content),
                !.html_files = Append(@, FileName(slide)),
                !.design_log = Append(@, [slide |-> slide,
                                          outcome |-> IF res.validation_passed
                                                      THEN "passed" ELSE "failed",
                                          html |-> res.html_content])]

\* The except clause of the per-slide try block.
SlideRaised(run, slide, exc) ==
    [run EXCEPT !.errors = Append(@, Msg("Failed to design slide", exc, slide.slide_id)),
                !.design_log = Append(@, [slide |-> slide, outcome |-> "raised",
                                          html |-> <<>>])]

\* `success=build_result.success and len(errors) == 0`.
RunSuccess(build_result, errs) == build_result.success /\ Len(errs) = 0

\* ----------------------------------------------- actions: design_slide

\* One iteration of the retry loop of design_slide.
DesignAttempt ==
    /\ d.pc = "loop"
    /\ d.attempt < d.max_retries
    /\ \E response \in DesignResponses : d' = DesignIteration(d, response)
    /\ UNCHANGED <<mode, p, o, sm, fn>>

\* One iteration in which the agent call raises.
DesignAttemptRaises ==
    /\ d.pc = "loop"
    /\ d.attempt < d.max_retries
    /\ d' = DesignIterationRaises(d)
    /\ UNCHANGED <<mode, p, o, sm, fn>>

\* The loop is over without a return from inside it.
DesignExhausted ==
    /\ d.pc = "loop"
    /\ d.attempt >= d.max_retries
    /\ d' = DesignAfterLoop(d)
    /\ UNCHANGED <<mode, p, o, sm, fn>>

\* ------------------------------------------------------- actions: plan

\* One iteration of the retry loop of plan.
PlanAttempt ==
    /\ p.pc = "loop"
    /\ p.attempt < p.max_retries
    /\ \E response \in PlanResponses : p' = PlanIteration(p, response)
    /\ UNCHANGED <<mode, d, o, sm, fn>>

\* One iteration in which the agent call raises.
PlanAttemptRaises ==
    /\ p.pc = "loop"
    /\ p.attempt < p.max_retries
    /\ p' = PlanIterationRaises(p)
    /\ UNCHANGED <<mode, d, o, sm, fn>>

\* The loop ran no iteration.
PlanExhausted ==
    /\ p.pc = "loop"
    /\ p.attempt >= p.max_retries
    /\ p' = PlanAfterLoop(p)
    /\ UNCHANGED <<mode, d, o, sm, fn>>

\* ------------------------- actions: OrchestratorAgent.generate_presentation

\* Steps 1 and 2: the brief and the output directories.
SyncStart ==
    /\ mode = "sync"
    /\ o.pc = "start"
    /\ o' = [o EXCEPT !.pc = "catalog"]
    /\ UNCHANGED <<mode, d, p, sm, fn>>

\* Step 3: load_catalog returns, and step 4 calls the planner.
SyncCatalogLoaded ==
    /\ mode = "sync"
    /\ o.pc = "catalog"
    /\ o' = [o EXCEPT !.pc = "planning"]
    /\ p' = EnterPlan(p)
    /\ UNCHANGED <<mode, d, sm, fn>>

\* Step 3: load_catalog raises.
SyncCatalogFailed ==
    /\ mode = "sync"
    /\ o.pc = "catalog"
    /\ LET errs == Append(o.errors, Msg("Failed to load catalog", "", ""))
       IN  o' = [o EXCEPT !.pc = "done", !.errors = errs,
                          !.result = PresentationResult(FALSE, "", 0, FALSE, <<>>, errs)]
    /\ UNCHANGED <<mode, d, p, sm, fn>>

\* Step 4: the planner raised.
SyncPlanFailed ==
    /\ mode = "sync"
    /\ o.pc = "planning"
    /\ p.pc = "raised"
    /\ LET errs == Append(o.errors, Msg("Slide planning failed", p.exc, ""))
       IN  o' = [o EXCEPT !.pc = "done", !.errors = errs,
                          !.result = PresentationResult(FALSE, "", 0, FALSE, <<>>, errs)]
    /\ UNCHANGED <<mode, d, p, sm, fn>>

\* Step 4: the planner returned a plan; it is saved.
SyncPlanReturned ==
    /\ mode = "sync"
    /\ o.pc = "planning"
    /\ p.pc = "returned"
    /\ o' = [o EXCEPT !.pc = "designing", !.slide_plan = p.result]
    /\ p' = NewPlanner(p.given)
    /\ UNCHANGED <<mode, d, sm, fn>>

\* Step 5: the loop takes the next slide and calls design_slide.
SyncBeginSlide ==
    /\ mode = "sync"
    /\ o.pc = "designing"
    /\ o.i < Len(o.slide_plan.slides)
    /\ d' = EnterDesignSlide(d, o.slide_plan.slides[o.i + 1].slide_id)
    /\ o' = [o EXCEPT !.pc = "in_slide", !.design_calls = @ + 1]
    /\ UNCHANGED <<mode, p, sm, fn>>

\* Step 5: design_slide returned or raised; the rest of the loop body.
SyncEndSlide ==
    /\ mode = "sync"
    /\ o.pc = "in_slide"
    /\ d.pc \in {"returned", "raised"}
    /\ LET slide == o.slide_plan.slides[o.i + 1]
           run == IF d.pc = "returned"
                  THEN SlideDesigned(o, slide, d.result)
                  ELSE SlideRaised(o, slide, d.exc)
       IN  o' = [run EXCEPT !.pc = "designing", !.i = @ + 1]
    /\ d' = NewDesigner(d.given)
    /\ UNCHANGED <<mode, p, sm, fn>>

\* After the loop: no file was written.
SyncNoSlides ==
    /\ mode = "sync"
    /\ o.pc = "designing"
    /\ o.i = Len(o.slide_plan.slides)
    /\ NoHtmlFiles(o.html_files)
    /\ LET errs == Append(o.errors, Msg("No slides were successfully designed", "", ""))
       IN  o' = [o EXCEPT !.pc = "done", !.errors = errs,
                          !.result = PresentationResult(FALSE, o.slide_plan.title, 0,
                                                        FALSE, <<>>, errs)]
    /\ UNCHANGED <<mode, d, p, sm, fn>>

\* Step 6: _build_pptx over the slides directory, and the result.
SyncBuild ==
    /\ mode = "sync"
    /\ o.pc = "designing"
    /\ o.i = Len(o.slide_plan.slides)
    /\ ~NoHtmlFiles(o.html_files)
    /\ \E outcome \in ConverterOutcomes :
          LET build_result == BuildPptx(outcome)
              errs == o.errors \o build_result.errors
          IN  o' = [o EXCEPT
                      !.pc = "done",
                      !.converter_runs =
                          IF ConverterInvoked(outcome)
                          THEN Append(@, [input |-> o.slides_dir, outcome |-> outcome])
                          ELSE @,
                      !.build_result = build_result,
                      !.errors = errs,
                      !.result = PresentationResult(
                                    RunSuccess(build_result, errs),
                                    o.slide_plan.title, Len(o.html_files),
                                    build_result.has_pptx, o.warnings, errs)]
    /\ UNCHANGED <<mode, d, p, sm, fn>>

\* ----------------- actions: GenerationService.generate_presentation_stream

\* Mutant: the stream stops at the terminal event, without the sentinel.
StreamEnd_NoSentinel(terminal) == <<terminal>>

\* How every path of the generator ends: the terminal event, then the
\* item `data: [DONE]`.
StreamEnd(terminal) == <<terminal, DONE>>

\* Mutant: a slide whose design raised yields no event.
SlideOutcomeEvents_SilentError(slide, returned, exc) ==
    IF returned
    THEN <<Event("slide_complete", slide.slide_index, <<>>)>>
    ELSE <<>>

\* What the loop body yields once design_slide is over: slide_complete
\* after the file is written, slide_error from the except clause.
SlideOutcomeEvents(slide, returned, exc) ==
    IF returned
    THEN <<Event("slide_complete", slide.slide_index, <<>>)>>
    ELSE <<Event("slide_error", slide.slide_index,
                 <<Msg("Failed to design slide", exc, slide.slide_id)>>)>>

\* `build_result.success and build_result.pptx_path`: generation_complete
\* is the terminal event.
StreamComplete(build_result) == build_result.success /\ build_result.has_pptx

\* Up to the planner call: brief_created, catalog_loaded, planning_started.
StreamStart ==
    /\ mode = "stream"
    /\ o.pc = "start"
    /\ o' = [o EXCEPT !.pc = "planning",
                      !.events = @ \o <<Event("brief_created", 0, <<>>),
                                        Event("catalog_loaded", 0, <<>>),
                                        Event("planning_started", 0, <<>>)>>]
    /\ p' = EnterPlan(p)
    /\ UNCHANGED <<mode, d, sm, fn>>

\* The planner raised: the outer except clause, then the sentinel.
StreamPlanFailed ==
    /\ mode = "stream"
    /\ o.pc = "planning"
    /\ p.pc = "raised"
    /\ o' = [o EXCEPT !.pc = "done",
                      !.events = @ \o StreamEnd(Event("generation_error", 0,
                                                       <<Msg(p.exc, "", "")>>))]
    /\ UNCHANGED <<mode, d, p, sm, fn>>

\* The planner returned: planning_complete, and the plan is saved.
StreamPlanReturned ==
    /\ mode = "stream"
    /\ o.pc = "planning"
    /\ p.pc = "returned"
    /\ o' = [o EXCEPT !.pc = "designing", !.slide_plan = p.result,
                      !.events = Append(@, Event("planning_complete",
                                                 Len(p.result.slides), <<>>))]
    /\ p' = NewPlanner(p.given)
    /\ UNCHANGED <<mode, d, sm, fn>>

\* An exception outside the planner and the slide loop: creating the output
\* directories or the orchestrator raises before the first event, or
\* create_brief raises after brief_created; the outer except clause yields
\* generation_error, then the sentinel follows.
StreamSetupRaises ==
    /\ mode = "stream"
    /\ o.pc = "start"
    /\ \E yielded \in {<<>>, <<Event("brief_created", 0, <<>>)>>} :
          o' = [o EXCEPT !.pc = "done",
                         !.events = @ \o yielded
                                      \o StreamEnd(Event("generation_error", 0,
                                                         <<Msg("OSError", "", "")>>))]
    /\ UNCHANGED <<mode, d, p, sm, fn>>

\* The planner returned and planning_complete is yielded, but writing
\* deck.json raises: the outer except clause, then the sentinel.
StreamSavePlanRaises ==
    /\ mode = "stream"
    /\ o.pc = "planning"
    /\ p.pc = "returned"
    /\ o' = [o EXCEPT !.pc = "done", !.slide_plan = p.result,
                      !.events = @ \o <<Event("planning_complete",
                                              Len(p.result.slides), <<>>)>>
                                   \o StreamEnd(Event("generation_error", 0,
                                                      <<Msg("OSError", "", "")>>))]
    /\ p' = NewPlanner(p.given)
    /\ UNCHANGED <<mode, d, sm, fn>>

\* The loop takes the next slide: slide_designing, then design_slide.
StreamBeginSlide ==
    /\ mode = "stream"
    /\ o.pc = "designing"
    /\ o.i < Len(o.slide_plan.slides)
    /\ d' = EnterDesignSlide(d, o.slide_plan.slides[o.i + 1].slide_id)
    /\ o' = [o EXCEPT !.pc = "in_slide", !.design_calls = @ + 1,
                      !.events = Append(@, Event("slide_designing",
                                                 o.slide_plan.slides[o.i + 1].slide_index,
                                                 <<>>))]
    /\ UNCHANGED <<mode, p, sm, fn>>

\* design_slide returned or raised: the rest of the loop body, with
\* slide_complete or slide_error.
StreamEndSlide ==
    /\ mode = "stream"
    /\ o.pc = "in_slide"
    /\ d.pc \in {"returned", "raised"}
    /\ LET slide == o.slide_plan.slides[o.i + 1]
           run == IF d.pc = "returned"
                  THEN SlideDesigned(o, slide, d.result)
                  ELSE SlideRaised(o, slide, d.exc)
       IN  o' = [run EXCEPT !.pc = "designing", !.i = @ + 1,
                            !.events = @ \o SlideOutcomeEvents(
                                                slide, d.pc = "returned", d.exc)]
    /\ d' = NewDesigner(d.given)
    /\ UNCHANGED <<mode, p, sm, fn>>

\* After the loop: no file was written; generation_error, the sentinel, return.
StreamNoSlides ==
    /\ mode = "stream"
    /\ o.pc = "designing"
    /\ o.i = Len(o.slide_plan.slides)
    /\ NoHtmlFiles(o.html_files)
    /\ o' = [o EXCEPT !.pc = "done",
                      !.events = @ \o StreamEnd(Event("generation_error", 0,
                                          <<Msg("No slides were successfully designed",
                                                "", "")>>))]
    /\ UNCHANGED <<mode, d, p, sm, fn>>

\* build_started, _build_pptx, the terminal event and the sentinel.
StreamBuild ==
    /\ mode = "stream"
    /\ o.pc = "designing"
    /\ o.i = Len(o.slide_plan.slides)
    /\ ~NoHtmlFiles(o.html_files)
    /\ \E outcome \in ConverterOutcomes :
          LET build_result == BuildPptx(outcome)
              errs == o.errors \o build_result.errors
              terminal ==
                  IF StreamComplete(build_result)
                  THEN Event("generation_complete", Len(o.html_files), o.warnings)
                  ELSE Event("generation_error", 0, errs)
          IN  o' = [o EXCEPT
                      !.pc = "done",
                      !.converter_runs =
                          IF ConverterInvoked(outcome)
                          THEN Append(@, [input |-> o.slides_dir, outcome |-> outcome])
                          ELSE @,
                      !.build_result = build_result,
                      !.errors = errs,
                      !.events = @ \o <<Event("build_started", 0, <<>>)>>
                                   \o StreamEnd(terminal)]
    /\ UNCHANGED <<mode, d, p, sm, fn>>

\* ------------------------------------------------------ actions: main.py

\* The file names PresentationPlanner.generate_presentation returns: the
\* title slide, n content slides, the ending slide.
CliHtmlFiles(n) ==
    <<[index |-> 0, slide_id |-> "title"]>>
    \o [k \in 1..n |-> [index |-> k, slide_id |-> ""]]
    \o <<[index |-> n + 1, slide_id |-> "ending"]>>

\* planner.generate_presentation(prompt, slides_dir): it returns the files
\* it wrote, or the generator call raises and the exception leaves main.
CliGenerate ==
    /\ mode = "cli"
    /\ o.pc = "start"
    /\ \/ \E n \in 0..MaxSlides :
             LET html_files == CliHtmlFiles(n)
             IN  IF NoHtmlFiles(html_files)
                 THEN o' = [o EXCEPT
                              !.pc = "done",
                              !.process =
                                  Process(1, "",
                                      <<Msg("Error: No slides were generated", "", "")>>,
                                      <<>>)]
                 ELSE o' = [o EXCEPT !.pc = "rendering", !.html_files = html_files]
       \/ o' = [o EXCEPT !.pc = "done",
                         !.process = Process(1, "GeneratorError", <<>>, <<>>)]
    /\ UNCHANGED <<mode, d, p, sm, fn>>

\* render_html_to_pptx and the rest of main.
CliRender ==
    /\ mode = "cli"
    /\ o.pc = "rendering"
    /\ \E outcome \in RenderOutcomes :
          o' = [o EXCEPT
                  !.pc = "done",
                  !.render_runs =
                      IF RenderInvoked(outcome)
                      THEN Append(@, [input |-> o.html_files, outcome |-> outcome])
                      ELSE @,
                  !.process = MainAfterRender(RenderHtmlToPptx(outcome))]
    /\ UNCHANGED <<mode, d, p, sm, fn>>

\* ------------------------------------------- sessions, uploads, catalogs

\* Largest number of sessions one SessionManager creates.
MaxSessions == 2

\* Largest number of uploads one SessionManager accepts.
MaxUploads == 2

\* Latest hour of the clock.
MaxClock == 2

\* get_max_image_size_mb() * 1024 * 1024 with the default of 10 MB.
MAX_FILE_SIZE == 10 * 1024 * 1024

ALLOWED_EXTENSIONS == {".png", ".jpg", ".jpeg", ".gif", ".svg", ".webp"}

ALLOWED_MIME_TYPES ==
    {"image/png", "image/jpeg", "image/gif", "image/svg+xml", "image/webp"}

\* str(uuid.uuid4()) of the n-th session: 122 random bits, taken as fresh.
SessionIdOf(n) == <<"sess1", "sess2", "sess3", "sess4">>[n]

SessionIds == {SessionIdOf(n) : n \in 1..MaxSessions}

\* The values uuid.uuid4().hex[:8] takes: 32 random bits, any of which can
\* come up again.
HexValues == {"00000001", "00000002"}

\* f"user_upload_{hex}".
UploadIdOf(hex) == "user_upload_" \o hex

UploadIds == {UploadIdOf(hex) : hex \in HexValues}

\* The ids of the artifacts of the base catalog file; none has the form of
\* an upload id.
BaseIdOf(k) == <<"plot_1", "plot_2">>[k]

\* A path: the directory it is in ("base" for the visualisation store,
\* else the session id), and the name and the suffix of the file.
FilePath(dir, stem, suffix) == [dir |-> dir, stem |-> stem, suffix |-> suffix]

\* core.schemas.Artifact, the fields that differ between artifacts.
Artifact(artifact_id, title, tags, save_path) ==
    [artifact_id |-> artifact_id, artifact_type |-> "plot", title |-> title,
     tags |-> tags, save_path |-> save_path]

\* core.schemas.ArtifactCatalog; artifact_count is a field of its own.
ArtifactCatalog(artifact_count, artifacts) ==
    [artifact_count |-> artifact_count, artifacts |-> artifacts]

\* The catalog the file at base_catalog_path holds, with n artifacts.
BaseFileCatalog(n) ==
    ArtifactCatalog(n, [k \in 1..n |->
        Artifact(BaseIdOf(k), "Plot", <<>>, FilePath("base", BaseIdOf(k), ".png"))])

NoBaseFile == [exists |-> FALSE, catalog |-> BaseFileCatalog(0)]

\* The base catalog file: missing, or holding a catalog.
BaseFiles == {NoBaseFile, [exists |-> TRUE, catalog |-> BaseFileCatalog(1)]}

\* An UploadFile with its content: filename (present or not, stem and
\* suffix as written), declared content type ("" when none), length.
UploadFile(has_name, stem, suffix, content_type, size) ==
    [has_name |-> has_name, stem |-> stem, suffix |-> suffix,
     content_type |-> content_type, size |-> size]

\* The uploads a request can carry: one without filename and content
\* type, one with an upper-case suffix, and one each that is too long, has
\* a suffix that is not allowed, or declares a type that is not allowed.
UploadFiles ==
    {UploadFile(FALSE, "", "", "", MAX_FILE_SIZE),
     UploadFile(TRUE, "photo", ".PNG", "image/png", MAX_FILE_SIZE),
     UploadFile(TRUE, "photo", ".PNG", "image/png", MAX_FILE_SIZE + 1),
     UploadFile(TRUE, "tool", ".exe", "image/png", MAX_FILE_SIZE),
     UploadFile(TRUE, "photo", ".PNG", "text/plain", MAX_FILE_SIZE)}

\* str.lower() on the suffixes that occur.
Lower(suffix) == IF suffix = ".PNG" THEN ".png" ELSE suffix

\* Mutant: the declared content type is not looked at.
ValidateFile_NoMimeCheck(file) ==
    CASE file.size > MAX_FILE_SIZE -> "File size exceeds maximum"
      [] file.has_name /\ Lower(file.suffix) \notin ALLOWED_EXTENSIONS ->
            "File extension not allowed"
      [] OTHER -> ""

\* ImageHandler.validate_file: the message of the ImageValidationError it
\* raises, "" when it returns.
ValidateFile(file) ==
    CASE file.size > MAX_FILE_SIZE -> "File size exceeds maximum"
      [] file.has_name /\ Lower(file.suffix) \notin ALLOWED_EXTENSIONS ->
            "File extension not allowed"
      [] file.content_type # "" /\ file.content_type \notin ALLOWED_MIME_TYPES ->
            "MIME type not allowed"
      [] OTHER -> ""

\* ---- SessionManager and ImageHandler

\* Catalog objects live in a heap and are named by reference: reference 1
\* is the cached base catalog, the n-th session's catalog gets n + 1, and
\* 0 stands for None.  Artifact objects are never changed after they are
\* built, so a copied artifact is the same value.
BaseRef == 1

SessionRef(n) == n + 1

\* backend.session_manager.Session: session_dir, uploads_dir and
\* catalog_path follow from the session id.
Session(created_at, catalog) ==
    [created_at |-> created_at, catalog |-> catalog, uploaded_images |-> <<>>]

\* What a handler answered: the operation, the session id and the artifact
\* id of the request, the uploaded file, the HTTP status (0 for a call that
\* is not a request), and the number a sweep returned.
Response(op, session, artifact, file, status, count) ==
    [op |-> op, session |-> session, artifact |-> artifact, file |-> file,
     status |-> status, count |-> count]

NoFile == UploadFile(FALSE, "", "", "", 0)

NoResponse == Response("", "", "", NoFile, 0, 0)

\* An empty dict.
EmptyDict == [x \in {} |-> 0]

\* SessionManager.__init__ over a base catalog file, with the directory
\* tree under base_dir, the clock, and the numbers of uuid4 session ids
\* drawn and of uploads accepted so far.
NewManager(base_file) ==
    [base_file |-> base_file,
     base_ref |-> 0,
     heap |-> EmptyDict,
     sessions |-> EmptyDict,
     dirs |-> EmptyDict,
     uuids |-> 0,
     accepted |-> 0,
     now |-> 0,
     last |-> NoResponse]

\* f[k] = v added to or replaced in the dict f.
Put(f, k, v) == [x \in DOMAIN f \cup {k} |-> IF x = k THEN v ELSE f[x]]

\* dict.pop(k).
Pop(f, k) == [x \in DOMAIN f \ {k} |-> f[x]]

\* SessionManager._load_base_catalog: the cached object, loaded from the
\* file at the first call; an empty catalog when the file is missing.
LoadBaseCatalog(m) ==
    IF m.base_ref = 0
    THEN [m EXCEPT !.base_ref = BaseRef,
                   !.heap = Put(@, BaseRef,
                                IF m.base_file.exists
                                THEN m.base_file.catalog
                                ELSE ArtifactCatalog(0, <<>>))]
    ELSE m

\* Mutant: the session gets the cached base catalog object itself.
CreateSessionCatalog_NoCopy(heap, base_ref, ref) ==
    [heap |-> heap, ref |-> base_ref]

\* SessionManager._create_session_catalog: a new catalog object with the
\* base's artifact_count and a new list of copies of its artifacts.
CreateSessionCatalog(heap, base_ref, ref) ==
    [heap |-> Put(heap, ref,
                  ArtifactCatalog(heap[base_ref].artifact_count,
                                  [k \in 1..Len(heap[base_ref].artifacts) |->
                                      heap[base_ref].artifacts[k]])),
     ref |-> ref]

\* SessionManager._save_session_catalog / update_catalog: catalog.json of
\* the session is rewritten from the catalog object.
UpdateCatalog(m, sid) ==
    [m EXCEPT !.dirs[sid].catalog_file = m.heap[m.sessions[sid].catalog]]

\* SessionManager.create_session.
CreateSession(m) ==
    LET m1 == LoadBaseCatalog(m)
        n == m.uuids + 1
        sid == SessionIdOf(n)
        made == CreateSessionCatalog(m1.heap, m1.base_ref, SessionRef(n))
        m2 == [m1 EXCEPT
                 !.uuids = n,
                 !.heap = made.heap,
                 !.dirs = Put(@, sid, [uploads |-> {},
                                       catalog_file |-> ArtifactCatalog(0, <<>>)]),
                 !.sessions = Put(@, sid, Session(m.now, made.ref))]
    IN  UpdateCatalog(m2, sid)

\* SessionManager.get_session: the session, or None (FALSE in `found`).
GetSession(m, sid) ==
    IF sid \in DOMAIN m.sessions
    THEN [found |-> TRUE, session |-> m.sessions[sid]]
    ELSE [found |-> FALSE, session |-> Session(0, 0)]

\* Mutant: the artifact is appended but artifact_count is left as it was.
ProcessUpload_NoCount(m, sid, file, hex) ==
    LET artifact_id == UploadIdOf(hex)
        ext == IF file.has_name THEN Lower(file.suffix) ELSE ".png"
        save_path == FilePath(sid, artifact_id, ext)
        title == IF file.has_name THEN file.stem ELSE artifact_id
        artifact == Artifact(artifact_id, title, <<"user_upload">>, save_path)
        ref == m.sessions[sid].catalog
    IN  [artifact |-> artifact,
         m |-> [m EXCEPT
                  !.dirs[sid].uploads = WriteText(@, save_path, file.size),
                  !.heap[ref].artifacts = Append(@, artifact),
                  !.sessions[sid].uploaded_images = Append(@, artifact_id)]]

\* ImageHandler.process_upload after validate_file returned; hex is the
\* value of uuid4().hex[:8].  The manager and the artifact made.
ProcessUpload(m, sid, file, hex) ==
    LET artifact_id == UploadIdOf(hex)
        ext == IF file.has_name THEN Lower(file.suffix) ELSE ".png"
        save_path == FilePath(sid, artifact_id, ext)
        title == IF file.has_name THEN file.stem ELSE artifact_id
        artifact == Artifact(artifact_id, title, <<"user_upload">>, save_path)
        ref == m.sessions[sid].catalog
    IN  [artifact |-> artifact,
         m |-> [m EXCEPT
                  !.dirs[sid].uploads = WriteText(@, save_path, file.size),
                  !.heap[ref].artifacts = Append(@, artifact),
                  !.heap[ref].artifact_count = @ + 1,
                  !.sessions[sid].uploaded_images = Append(@, artifact_id)]]

\* list.pop(i) and list.remove(x) for an x at position i.
RemoveAt(seq, i) == SubSeq(seq, 1, i - 1) \o SubSeq(seq, i + 1, Len(seq))

\* The file at path is unlinked if it exists.
Unlink(m, path) ==
    IF path.dir \in DOMAIN m.dirs
    THEN [m EXCEPT !.dirs[path.dir].uploads = {f \in @ : f.name # path}]
    ELSE m

\* Mutant: any artifact of the catalog can be removed.
RemoveArtifact_AnyId(m, sid, artifact_id) ==
    LET ref == m.sessions[sid].catalog
        i == FindFrom(m.heap[ref].artifacts, 1,
                      {a \in Range(m.heap[ref].artifacts) : a.artifact_id = artifact_id})
    IN  IF i = 0 THEN [ok |-> FALSE, m |-> m]
        ELSE [ok |-> TRUE,
              m |-> [Unlink(m, m.heap[ref].artifacts[i].save_path) EXCEPT
                       !.heap[ref].artifacts = RemoveAt(@, i),
                       !.heap[ref].artifact_count = @ - 1]]

\* ImageHandler.remove_artifact: only ids in uploaded_images; the first
\* artifact with the id loses its file and leaves the catalog, and the
\* first such entry leaves uploaded_images.
RemoveArtifact(m, sid, artifact_id) ==
    LET ref == m.sessions[sid].catalog
        uploaded == m.sessions[sid].uploaded_images
        i == FindFrom(m.heap[ref].artifacts, 1,
                      {a \in Range(m.heap[ref].artifacts) : a.artifact_id = artifact_id})
    IN  IF artifact_id \notin Range(uploaded) \/ i = 0
        THEN [ok |-> FALSE, m |-> m]
        ELSE [ok |-> TRUE,
              m |-> [Unlink(m, m.heap[ref].artifacts[i].save_path) EXCEPT
                       !.heap[ref].artifacts = RemoveAt(@, i),
                       !.heap[ref].artifact_count = @ - 1,
                       !.sessions[sid].uploaded_images =
                           RemoveAt(@, FindFrom(uploaded, 1, {artifact_id}))]]

\* Mutant: the session leaves the registry but its directory stays.
CleanupSession_KeepsDir(m, sid) ==
    IF sid \in DOMAIN m.sessions
    THEN [ok |-> TRUE, m |-> [m EXCEPT !.sessions = Pop(@, sid)]]
    ELSE [ok |-> FALSE, m |-> m]

\* SessionManager.cleanup_session: the session is popped from the registry
\* and its directory tree removed; the catalog object goes with the
\* session unless something else still refers to it.
CleanupSession(m, sid) ==
    IF sid \in DOMAIN m.sessions
    THEN LET ref == m.sessions[sid].catalog
             sessions == Pop(m.sessions, sid)
             live == {m.base_ref} \cup {sessions[x].catalog : x \in DOMAIN sessions}
         IN  [ok |-> TRUE,
              m |-> [m EXCEPT !.sessions = sessions,
                              !.dirs = Pop(@, sid),
                              !.heap = [r \in DOMAIN @ \cap live |-> @[r]]]]
    ELSE [ok |-> FALSE, m |-> m]

\* The second loop of cleanup_old_sessions over to_remove[k..]: each
\* session is cleaned up and the successes counted.
RECURSIVE CleanupEach(_, _, _, _)
CleanupEach(m, to_remove, k, cleaned) ==
    IF k > Len(to_remove)
    THEN [cleaned |-> cleaned, m |-> m]
    ELSE LET r == CleanupSession(m, to_remove[k])
         IN  CleanupEach(r.m, to_remove, k + 1,
                         IF r.ok THEN cleaned + 1 ELSE cleaned)

\* The session ids of the registry in insertion order, which is the order
\* of creation.
RegistryOrder(m) ==
    SelectSeq([n \in 1..m.uuids |-> SessionIdOf(n)],
              LAMBDA sid : sid \in DOMAIN m.sessions)

\* SessionManager.cleanup_old_sessions: the sessions whose age in hours is
\* greater than max_age_hours are cleaned up; the number cleaned.
CleanupOldSessions(m, max_age_hours) ==
    LET to_remove == SelectSeq(RegistryOrder(m),
                               LAMBDA sid :
                                   m.now - m.sessions[sid].created_at > max_age_hours)
    IN  CleanupEach(m, to_remove, 1, 0)

\* ------------------------------------------- actions: the session API

\* POST /sessions.
ApiCreateSession ==
    /\ mode \in {"session", "sweep", "download"}
    /\ sm.uuids < MaxSessions
    /\ LET m == CreateSession(sm)
       IN  sm' = [m EXCEPT !.last = Response("create_session", SessionIdOf(m.uuids),
                                             "", NoFile, 200, 0)]
    /\ UNCHANGED <<mode, d, p, o, fn>>

\* DELETE /sessions/{session_id}.
ApiDeleteSession ==
    /\ mode \in {"session", "sweep", "download"}
    /\ \E sid \in SessionIds :
          LET r == CleanupSession(sm, sid)
          IN  sm' = [r.m EXCEPT !.last = Response("delete_session", sid, "", NoFile,
                                                  IF r.ok THEN 200 ELSE 404, 0)]
    /\ UNCHANGED <<mode, d, p, o, fn>>

\* POST /sessions/{session_id}/images: 404 without the session, 400 when
\* validate_file raises, else the upload is processed and the catalog saved.
ApiUploadImage ==
    /\ mode = "session"
    /\ \E sid \in SessionIds :
          LET session == GetSession(sm, sid)
          IN  IF ~session.found
              THEN \* the 404 is raised before the file is read
                   sm' = [sm EXCEPT !.last = Response("upload", sid, "", NoFile, 404, 0)]
              ELSE \E file \in UploadFiles :
                      IF ValidateFile(file) # ""
                      THEN sm' = [sm EXCEPT
                                    !.last = Response("upload", sid, "", file, 400, 0)]
                      ELSE /\ sm.accepted < MaxUploads
                           /\ \E hex \in HexValues :
                                 LET up == ProcessUpload(sm, sid, file, hex)
                                 IN  sm' = [UpdateCatalog(up.m, sid) EXCEPT
                                              !.accepted = @ + 1,
                                              !.last = Response("upload", sid,
                                                                up.artifact.artifact_id,
                                                                file, 200, 0)]
    /\ UNCHANGED <<mode, d, p, o, fn>>

\* The ids a request can name: upload ids and base catalog ids.
RequestArtifactIds == UploadIds \cup {BaseIdOf(1)}

\* DELETE /sessions/{session_id}/images/{artifact_id}: the catalog is saved
\* only when remove_artifact returned True.
ApiDeleteImage ==
    /\ mode = "session"
    /\ \E sid \in SessionIds, artifact_id \in RequestArtifactIds :
          LET session == GetSession(sm, sid)
              r == RemoveArtifact(sm, sid, artifact_id)
          IN  CASE ~session.found ->
                      sm' = [sm EXCEPT !.last = Response("delete_image", sid, artifact_id,
                                                         NoFile, 404, 0)]
                [] session.found /\ ~r.ok ->
                      sm' = [sm EXCEPT !.last = Response("delete_image", sid, artifact_id,
                                                         NoFile, 404, 0)]
                [] OTHER ->
                      sm' = [UpdateCatalog(r.m, sid) EXCEPT
                               !.last = Response("delete_image", sid, artifact_id,
                                                 NoFile, 200, 0)]
    /\ UNCHANGED <<mode, d, p, o, fn>>

\* session_manager.cleanup_old_sessions(max_age_hours); the response keeps
\* max_age_hours in `status` and the number returned in `count`.
SweepOldSessions ==
    /\ mode = "sweep"
    /\ \E max_age_hours \in 0..MaxClock :
          LET r == CleanupOldSessions(sm, max_age_hours)
          IN  sm' = [r.m EXCEPT !.last = Response("cleanup_old_sessions", "", "",
                                                  NoFile, max_age_hours, r.cleaned)]
    /\ UNCHANGED <<mode, d, p, o, fn>>

\* An hour passes.
Tick ==
    /\ mode = "sweep"
    /\ sm.now < MaxClock
    /\ sm' = [sm EXCEPT !.now = @ + 1, !.last = NoResponse]
    /\ UNCHANGED <<mode, d, p, o, fn>>

\* ------------------------------------------------------------- downloads

\* A path is a sequence of names from the root; a name is the sequence of
\* the pieces it is written with, so that one name can begin with another:
\* <<"sess1">> and <<"sess1", "-old">> are the names sess1 and sess1-old.
\* The uuid4 strings of two sessions have the same length, so neither
\* begins with the other.
PARENT == <<"..">>

\* SESSIONS_DIR, resolved.
BaseDir == << <<"srv">>, <<"sessions">> >>

\* session.session_dir.resolve().
SessionDir(sid) == Append(BaseDir, <<sid>>)

\* A directory next to the session directories whose name begins with the
\* name of a session directory, and the file in it.
SiblingFile(sid) == BaseDir \o << <<sid, "-old">>, <<"catalog.json">> >>

\* The {path:path} of a request: relative segments, or an absolute path.
RequestPath(abs, segs) == [abs |-> abs, segs |-> segs]

RequestPaths ==
    {RequestPath(FALSE, << <<"catalog.json">> >>),
     RequestPath(FALSE, << <<"output">>, PARENT, <<"catalog.json">> >>),
     RequestPath(FALSE, << PARENT, PARENT, <<"secret.txt">> >>),
     RequestPath(TRUE, << <<"etc">>, <<"passwd">> >>)}
    \cup {RequestPath(FALSE, << PARENT, <<sid>>, <<"catalog.json">> >>) :
             sid \in SessionIds}
    \cup {RequestPath(FALSE, << PARENT, <<sid, "-old">>, <<"catalog.json">> >>) :
             sid \in SessionIds}

\* Path.resolve() of `dir / segs`: every .. takes the last name off.
RECURSIVE Resolve(_, _)
Resolve(dir, segs) ==
    IF segs = <<>> THEN dir
    ELSE IF Head(segs) = PARENT
         THEN Resolve(IF dir = <<>> THEN dir ELSE SubSeq(dir, 1, Len(dir) - 1),
                      Tail(segs))
         ELSE Resolve(Append(dir, Head(segs)), Tail(segs))

\* (session.session_dir / path).resolve(): an absolute path replaces the
\* directory it is joined to.
FilePathOf(sid, path) ==
    Resolve(IF path.abs THEN <<>> ELSE SessionDir(sid), path.segs)

\* a begins with b, for sequences.
IsPrefix(b, a) == Len(b) <= Len(a) /\ SubSeq(a, 1, Len(b)) = b

\* str(file_path).startswith(str(dir)): the text of dir, whose last name may
\* end in the middle of a name of file_path.
StartsWith(file_path, dir) ==
    /\ Len(dir) <= Len(file_path)
    /\ SubSeq(file_path, 1, Len(dir) - 1) = SubSeq(dir, 1, Len(dir) - 1)
    /\ IsPrefix(dir[Len(dir)], file_path[Len(dir)])

\* file_path.exists(): the catalog.json of a session that has a directory,
\* a file of the machine, or a file put next to the session directories.
FileExists(m, others, file_path) ==
    \/ \E sid \in DOMAIN m.dirs : file_path = Append(SessionDir(sid), <<"catalog.json">>)
    \/ file_path = << <<"etc">>, <<"passwd">> >>
    \/ file_path \in others

\* GET /sessions/{session_id}/download/{path}: 404 without the session,
\* 403 when the resolved path does not start with the session directory,
\* 404 when no such file exists, else the file is sent.
ApiDownloadFile ==
    /\ mode = "download"
    /\ \E sid \in SessionIds, path \in RequestPaths :
          LET session == GetSession(sm, sid)
              file_path == FilePathOf(sid, path)
              status == CASE ~session.found -> 404
                          [] session.found /\ ~StartsWith(file_path, SessionDir(sid)) -> 403
                          [] session.found /\ StartsWith(file_path, SessionDir(sid))
                             /\ ~FileExists(sm, fn.others, file_path) -> 404
                          [] OTHER -> 200
          IN  fn' = [fn EXCEPT !.pc = "answered", !.session = sid, !.path = path,
                               !.file_path = file_path, !.status = status]
    /\ UNCHANGED <<mode, d, p, o, sm>>

\* ------------------------------------------- the designer's conversation

\* What the generator answers in the conversation model: the document of
\* the slide asked for, a document without the root container, or prose.
ConversationResponses(slide_id) ==
    {GoodDoc(slide_id),
     <<DOCTYPE, HTML_OPEN, HEAD, BODY, DIV, P_OPEN, TEXT_LONG, HTML_CLOSE>>,
     <<TEXT_LONG>>}

\* agent(message) on the Agent that _get_agent created once: the generator
\* is shown the conversation so far with the message added, and its answer
\* is added too.  Every entry is tagged with the slide of the design_slide
\* call that made it.
AgentCall(messages, slide_id, message, response) ==
    messages \o <<[slide |-> slide_id, role |-> "user", content |-> message],
                  [slide |-> slide_id, role |-> "assistant", content |-> response]>>

\* design_slide is entered for a slide that was not designed yet, in any
\* order; self._designer and its self._agent are the objects of the calls
\* before.
ConversationBeginSlide ==
    /\ mode = "conversation"
    /\ fn.dd.pc \in {"idle", "returned"}
    /\ \E slide_id \in fn.todo :
          fn' = [fn EXCEPT !.dd = EnterDesignSlide(@, slide_id),
                           !.todo = @ \ {slide_id}]
    /\ UNCHANGED <<mode, d, p, o, sm>>

\* One iteration of the retry loop, through the shared agent.
ConversationAttempt ==
    /\ mode = "conversation"
    /\ fn.dd.pc = "loop"
    /\ fn.dd.attempt < fn.dd.max_retries
    /\ \E response \in ConversationResponses(fn.dd.slide_id) :
          LET dd == DesignIteration(fn.dd, response)
              message == dd.sent[Len(dd.sent)]
          IN  fn' = [fn EXCEPT
                       !.dd = dd,
                       !.shown = Append(fn.messages,
                                        [slide |-> dd.slide_id, role |-> "user",
                                         content |-> message]),
                       !.messages = AgentCall(@, dd.slide_id, message, response)]
    /\ UNCHANGED <<mode, d, p, o, sm>>

\* The loop of design_slide is over.
ConversationExhausted ==
    /\ mode = "conversation"
    /\ fn.dd.pc = "loop"
    /\ fn.dd.attempt >= fn.dd.max_retries
    /\ fn' = [fn EXCEPT !.dd = DesignAfterLoop(@)]
    /\ UNCHANGED <<mode, d, p, o, sm>>

\* ------------------------------------------ generation runs of a session

\* The runs started on the session.
RunIds == {1, 2}

\* The upload the other requests of the session carry.
ServiceFile == UploadFile(TRUE, "photo", ".PNG", "image/png", MAX_FILE_SIZE)

\* The session the runs belong to.
ServiceSession == SessionIdOf(1)

\* A generation run of the streaming service before it is started.
\*   output_name  the second of the clock in presentation_<timestamp>
\*   catalog      the object the local `catalog` is bound to
\*   observed     the artifacts of that object as the planner and each
\*                design_slide call found them, in the order of the calls
\*   rendered     the files of slides_dir when the converter is given it
NewServiceRun ==
    [pc |-> "idle", output_name |-> 0, catalog |-> 0, n |-> 0, i |-> 0,
     observed |-> <<>>, rendered |-> {}]

\* An output directory: who wrote its deck.json (0 when nobody has) and
\* its slide files, each with the run that wrote it last.
NewOutputDir == [deck |-> 0, slides |-> {}]

\* The artifact ids of the object a run's `catalog` is bound to.
ObservedIds(m, ref) ==
    [k \in 1..Len(m.heap[ref].artifacts) |-> m.heap[ref].artifacts[k].artifact_id]

\* The runs that are started: one next to the upload and delete requests
\* of the session, all of them where the runs meet each other.
StartedRuns == IF mode = "runs" THEN RunIds ELSE {1}

\* generate_presentation_stream up to `catalog = session.catalog`: the
\* output directory is named by the second of the clock and made if it is
\* not there; the local is bound to the session's catalog object.
ServiceStart ==
    /\ mode \in {"service", "runs"}
    /\ \E r \in StartedRuns :
          /\ fn.runs[r].pc = "idle"
          /\ fn' = [fn EXCEPT
                      !.runs[r].pc = "planning",
                      !.runs[r].output_name = sm.now,
                      !.runs[r].catalog = sm.sessions[ServiceSession].catalog,
                      !.outputs = IF sm.now \in DOMAIN @ THEN @
                                  ELSE Put(@, sm.now, NewOutputDir)]
    /\ UNCHANGED <<mode, d, p, o, sm>>

\* orchestrator.planner.plan(brief, catalog) in the worker pool, returning
\* a plan of MaxSlides slides, then deck.json is written.
ServicePlan ==
    /\ mode \in {"service", "runs"}
    /\ \E r \in RunIds, n \in {MaxSlides} :
          /\ fn.runs[r].pc = "planning"
          /\ fn' = [fn EXCEPT
                      !.runs[r].pc = "designing",
                      !.runs[r].n = n,
                      !.runs[r].observed =
                          Append(@, ObservedIds(sm, fn.runs[r].catalog)),
                      !.outputs[fn.runs[r].output_name].deck = r]
    /\ UNCHANGED <<mode, d, p, o, sm>>

\* One turn of the slide loop: design_slide(..., catalog=catalog) in the
\* worker pool, then the slide's file is written.
ServiceDesignSlide ==
    /\ mode \in {"service", "runs"}
    /\ \E r \in RunIds :
          /\ fn.runs[r].pc = "designing"
          /\ fn.runs[r].i < fn.runs[r].n
          /\ fn' = [fn EXCEPT
                      !.runs[r].i = @ + 1,
                      !.runs[r].observed =
                          Append(@, ObservedIds(sm, fn.runs[r].catalog)),
                      !.outputs[fn.runs[r].output_name].slides =
                          {f \in @ : f.name # fn.runs[r].i + 1}
                          \cup {[name |-> fn.runs[r].i + 1, run |-> r]}]
    /\ UNCHANGED <<mode, d, p, o, sm>>

\* orchestrator._build_pptx(slides_dir, ...): the converter is given the
\* directory with whatever files it holds.
ServiceBuild ==
    /\ mode \in {"service", "runs"}
    /\ \E r \in RunIds :
          /\ fn.runs[r].pc = "designing"
          /\ fn.runs[r].i = fn.runs[r].n
          /\ fn' = [fn EXCEPT
                      !.runs[r].pc = "done",
                      !.runs[r].rendered = fn.outputs[fn.runs[r].output_name].slides]
    /\ UNCHANGED <<mode, d, p, o, sm>>

\* An upload request on the session, served while runs are suspended.
ServiceUploadImage ==
    /\ mode = "service"
    /\ sm.accepted < MaxUploads
    /\ \E hex \in HexValues :
          sm' = [UpdateCatalog(ProcessUpload(sm, ServiceSession, ServiceFile, hex).m,
                               ServiceSession)
                   EXCEPT !.accepted = @ + 1]
    /\ UNCHANGED <<mode, d, p, o, fn>>

\* A delete request on the session, served while runs are suspended.
ServiceDeleteImage ==
    /\ mode = "service"
    /\ \E artifact_id \in UploadIds :
          LET r == RemoveArtifact(sm, ServiceSession, artifact_id)
          IN  /\ r.ok
              /\ sm' = UpdateCatalog(r.m, ServiceSession)
    /\ UNCHANGED <<mode, d, p, o, fn>>

\* A second passes.
ServiceTick ==
    /\ mode = "runs"
    /\ sm.now < MaxClock
    /\ sm' = [sm EXCEPT !.now = @ + 1]
    /\ UNCHANGED <<mode, d, p, o, fn>>

\* ------------------------------------------------ the two pipelines, paired

\* What one design_slide call comes to: a passing result, a result with
\* validation errors left, or an exception.
DesignOutcomes == {"passed", "failed", "raised"}

\* The result design_slide returns for an outcome that is not "raised".
OutcomeResult(slide_id, outcome) ==
    IF outcome = "passed"
    THEN SlideDesignResult(slide_id, GoodDoc(slide_id), TRUE, <<>>)
    ELSE SlideDesignResult(slide_id, <<TEXT_LONG>>, FALSE,
                           ValidateHtml(<<TEXT_LONG>>, slide_id))

\* One turn of the slide loop of either pipeline, given the outcome.
AfterSlide(run, slide, outcome) ==
    IF outcome = "raised"
    THEN SlideRaised(run, slide, "GeneratorError")
    ELSE SlideDesigned(run, slide, OutcomeResult(slide.slide_id, outcome))

\* generate_presentation and generate_presentation_stream over the same
\* plan: the next slide is designed with the same outcome in both.
PairSlide ==
    /\ mode = "pair"
    /\ fn.pc = "designing"
    /\ fn.i < fn.n
    /\ \E outcome \in DesignOutcomes :
          LET slide == SlideSpec(SlideIdOf(fn.i + 1), fn.i + 1)
          IN  fn' = [fn EXCEPT !.i = @ + 1,
                               !.outcomes = Append(@, outcome),
                               !.sync = AfterSlide(@, slide, outcome),
                               !.stream = AfterSlide(@, slide, outcome)]
    /\ UNCHANGED <<mode, d, p, o, sm>>

\* After the loop, both pipelines: no file and no build, or the build with
\* the same render outcome, and what each reports.
\*   success, sync_count      PresentationResult.success and .slide_count
\*   complete, stream_count   generation_complete is the terminal event,
\*                            and its slide_count
PairFinish ==
    /\ mode = "pair"
    /\ fn.pc = "designing"
    /\ fn.i = fn.n
    /\ \/ /\ NoHtmlFiles(fn.sync.html_files)
          /\ fn' = [fn EXCEPT !.pc = "done", !.render = "none",
                              !.success = FALSE, !.sync_count = 0,
                              !.complete = ~NoHtmlFiles(fn.stream.html_files),
                              !.stream_count = 0]
       \/ /\ ~NoHtmlFiles(fn.sync.html_files)
          /\ \E outcome \in ConverterOutcomes :
                LET build_result == BuildPptx(outcome)
                IN  fn' = [fn EXCEPT
                             !.pc = "done",
                             !.render = outcome.kind,
                             !.success = RunSuccess(build_result,
                                                    fn.sync.errors \o build_result.errors),
                             !.sync_count = Len(fn.sync.html_files),
                             !.complete = /\ ~NoHtmlFiles(fn.stream.html_files)
                                          /\ StreamComplete(build_result),
                             !.stream_count = Len(fn.stream.html_files)]
    /\ UNCHANGED <<mode, d, p, o, sm>>

\* ------------------------------------------- helper functions called alone

\* Longest response, in tokens, given to _extract_html.
MaxLen == 4

\* No helper function has been called.
NoCall == [pc |-> "none"]

\* The substrings _extract_html looks for, white space and other text.
\* HTML_CLOSE is the substring </html> wherever it occurs: the end tag of
\* the document, or text inside a script or a comment.
ExtractAlphabet == {FENCE, LANG_HTML, WS, TEXT_SHORT, DOCTYPE, HTML_CLOSE}

RECURSIVE SeqsOfLen(_, _)
SeqsOfLen(toks, n) ==
    IF n = 0 THEN {<<>>}
    ELSE {Append(s, t) : s \in SeqsOfLen(toks, n - 1), t \in toks}

\* Every response of at most MaxLen tokens.
ExtractResponses == UNION {SeqsOfLen(ExtractAlphabet, n) : n \in 0..MaxLen}

\* html_content = self._extract_html(str(result)).
CallExtractHtml ==
    /\ mode = "extract"
    /\ fn.pc = "given"
    /\ fn' = [fn EXCEPT !.pc = "extracted", !.html = ExtractHtml(fn.response)]
    /\ UNCHANGED <<mode, d, p, o, sm>>

\* _extract_html applied to its own result.
CallExtractHtmlAgain ==
    /\ mode = "extract"
    /\ fn.pc = "extracted"
    /\ fn' = [fn EXCEPT !.pc = "again", !.again = ExtractHtml(fn.html)]
    /\ UNCHANGED <<mode, d, p, o, sm>>

\* Most elements in the body of a document given to _validate_html.
MaxElems == 2

\* The elements of a body: root containers with the data attribute of a
\* slide or without one, other divs with the data attribute, a plain div
\* and a paragraph.
BodyElements ==
    {RootDiv(sid) : sid \in PlanSlideIds \cup {""}}
    \cup {DivData(sid) : sid \in PlanSlideIds}
    \cup {DIV, P_OPEN}

\* Complete documents around every body of at most MaxElems elements.
SlideDocuments ==
    {<<DOCTYPE, HTML_OPEN, HEAD, BODY>> \o body \o <<HTML_CLOSE>> :
        body \in UNION {SeqsOfLen(BodyElements, n) : n \in 0..MaxElems}}

\* validation_errors = self._validate_html(html_content, slide).
CallValidateHtml ==
    /\ mode = "validate"
    /\ fn.pc = "given"
    /\ fn' = [fn EXCEPT !.pc = "validated",
                        !.errors = ValidateHtml(fn.html, fn.slide_id)]
    /\ UNCHANGED <<mode, d, p, o, sm>>

\* Most content blocks of a slide given to design_slide.
MaxBlocks == 2

\* core.schemas.ContentBlock, the fields the request depends on; None and
\* "" are both falsy for artifact_id, render_mode "none" is None.
ContentBlock(artifact_id, artifact_render_mode) ==
    [artifact_id |-> artifact_id, artifact_render_mode |-> artifact_render_mode]

\* Blocks without an artifact, with an artifact of the catalog and with an
\* id no catalog has, in every render mode.
ContentBlocks ==
    {ContentBlock(a, md) : a \in {"", "plot_1", "stale_9"},
                           md \in {"none", "image", "html_table"}}

\* A catalog argument: None, or the artifacts by position with the fields
\* _resolve_artifacts reads.
NoCatalog == [none |-> TRUE, artifacts |-> <<>>]

CatalogGiven(artifacts) == [none |-> FALSE, artifacts |-> artifacts]

RequestCatalogs ==
    {NoCatalog,
     CatalogGiven(<<>>),
     CatalogGiven(<<[artifact_id |-> "plot_1", save_path |-> "assets/plot_1.png",
                     html_table |-> "<table>", title |-> "Plot",
                     description |-> "A plot"]>>)}

\* str(Path(save_path).resolve()) of a relative path.
ResolvePath(save_path) == "/cwd/" \o save_path

\* _resolve_artifacts: the dict of resolved data by artifact id.
ResolveArtifacts(blocks, catalog) ==
    IF catalog.none THEN EmptyDict
    ELSE LET ids == {catalog.artifacts[k].artifact_id : k \in 1..Len(catalog.artifacts)}
             \* the dict comprehension keeps the last artifact of an id
             artifact_map(id) ==
                 catalog.artifacts[CHOOSE k \in 1..Len(catalog.artifacts) :
                     /\ catalog.artifacts[k].artifact_id = id
                     /\ \A j \in (k + 1)..Len(catalog.artifacts) :
                           catalog.artifacts[j].artifact_id # id]
             wanted == {blocks[i].artifact_id : i \in 1..Len(blocks)} \ {""}
         IN  [id \in wanted \cap ids |->
                [save_path |-> ResolvePath(artifact_map(id).save_path),
                 html_table |-> artifact_map(id).html_table,
                 title |-> artifact_map(id).title,
                 description |-> artifact_map(id).description]]

\* A key of block_dict: absent, or present with a value.
Absent == [has |-> FALSE, value |-> ""]

Present(value) == [has |-> TRUE, value |-> value]

\* _format_design_request: block_dict of one content block.
BlockDict(i, block, resolved) ==
    LET mode_set == block.artifact_render_mode # "none"
        in_resolved == block.artifact_id # "" /\ block.artifact_id \in DOMAIN resolved
    IN  [index |-> i,
         artifact_id |-> IF block.artifact_id # "" THEN Present(block.artifact_id)
                         ELSE Absent,
         render_mode |-> IF block.artifact_id = "" THEN Absent
                         ELSE IF mode_set THEN Present(block.artifact_render_mode)
                         ELSE Present("image"),
         image_path |-> IF in_resolved /\ block.artifact_render_mode = "image"
                        THEN Present(resolved[block.artifact_id].save_path)
                        ELSE Absent,
         html_table |-> IF in_resolved /\ block.artifact_render_mode = "html_table"
                        THEN Present(resolved[block.artifact_id].html_table)
                        ELSE Absent]

\* design_slide up to the first agent call: resolve, then format.
CallFormatDesignRequest ==
    /\ mode = "request"
    /\ fn.pc = "given"
    /\ LET resolved == ResolveArtifacts(fn.blocks, fn.catalog)
       IN  fn' = [fn EXCEPT !.pc = "formatted",
                            !.blocks_info = [i \in 1..Len(fn.blocks) |->
                                               BlockDict(i, fn.blocks[i], resolved)]]
    /\ UNCHANGED <<mode, d, p, o, sm>>

\* --------------------------------------------------------- specifications

\* design_slide called on an agent constructed with any max_retries.
InitDesigner ==
    /\ mode = "design"
    /\ \E given \in GivenValues, slide_id \in PlanSlideIds :
          d = EnterDesignSlide(NewDesigner(given), slide_id)
    /\ p = NewPlanner(NoneGiven)
    /\ o = NewRun
    /\ sm = NewManager(NoBaseFile)
    /\ fn = NoCall

NextDesigner == DesignAttempt \/ DesignAttemptRaises \/ DesignExhausted

SpecDesigner == InitDesigner /\ [][NextDesigner]_vars

\* plan called on an agent constructed with any max_retries.
InitPlanner ==
    /\ mode = "plan"
    /\ d = NewDesigner(NoneGiven)
    /\ \E given \in GivenValues : p = EnterPlan(NewPlanner(given))
    /\ o = NewRun
    /\ sm = NewManager(NoBaseFile)
    /\ fn = NoCall

NextPlanner == PlanAttempt \/ PlanAttemptRaises \/ PlanExhausted

SpecPlanner == InitPlanner /\ [][NextPlanner]_vars

\* A SessionManager over any base catalog file, driven through the session
\* and image endpoints.
InitSessions ==
    /\ mode = "session"
    /\ d = NewDesigner(NoneGiven)
    /\ p = NewPlanner(NoneGiven)
    /\ o = NewRun
    /\ \E base_file \in BaseFiles : sm = NewManager(base_file)
    /\ fn = NoCall

NextSessions ==
    \/ ApiCreateSession
    \/ ApiDeleteSession
    \/ ApiUploadImage
    \/ ApiDeleteImage

SpecSessions == InitSessions /\ [][NextSessions]_vars

\* A SessionManager whose sessions are created and torn down while the
\* clock runs and the age-based sweep is called.
InitSweep ==
    /\ mode = "sweep"
    /\ d = NewDesigner(NoneGiven)
    /\ p = NewPlanner(NoneGiven)
    /\ o = NewRun
    /\ \E base_file \in BaseFiles : sm = NewManager(base_file)
    /\ fn = NoCall

NextSweep ==
    \/ ApiCreateSession
    \/ ApiDeleteSession
    \/ SweepOldSessions
    \/ Tick

SpecSweep == InitSweep /\ [][NextSweep]_vars

\* _extract_html called on any response.
InitExtract ==
    /\ mode = "extract"
    /\ d = NewDesigner(NoneGiven)
    /\ p = NewPlanner(NoneGiven)
    /\ o = NewRun
    /\ sm = NewManager(NoBaseFile)
    /\ \E response \in ExtractResponses :
          fn = [pc |-> "given", response |-> response, html |-> <<>>, again |-> <<>>]

NextExtract == CallExtractHtml \/ CallExtractHtmlAgain

SpecExtract == InitExtract /\ [][NextExtract]_vars

\* _validate_html called on any document for any slide.
InitValidate ==
    /\ mode = "validate"
    /\ d = NewDesigner(NoneGiven)
    /\ p = NewPlanner(NoneGiven)
    /\ o = NewRun
    /\ sm = NewManager(NoBaseFile)
    /\ \E html \in SlideDocuments, slide_id \in PlanSlideIds :
          fn = [pc |-> "given", html |-> html, slide_id |-> slide_id, errors |-> <<>>]

NextValidate == CallValidateHtml

SpecValidate == InitValidate /\ [][NextValidate]_vars

\* The design request of any slide against any catalog argument.
InitRequest ==
    /\ mode = "request"
    /\ d = NewDesigner(NoneGiven)
    /\ p = NewPlanner(NoneGiven)
    /\ o = NewRun
    /\ sm = NewManager(NoBaseFile)
    /\ \E blocks \in UNION {SeqsOfLen(ContentBlocks, n) : n \in 0..MaxBlocks},
          catalog \in RequestCatalogs :
          fn = [pc |-> "given", blocks |-> blocks, catalog |-> catalog,
                blocks_info |-> <<>>]

NextRequest == CallFormatDesignRequest

SpecRequest == InitRequest /\ [][NextRequest]_vars

\* The download endpoint over sessions that come and go; the directory of
\* the sessions may hold a directory that is not a session's.
InitDownload ==
    /\ mode = "download"
    /\ d = NewDesigner(NoneGiven)
    /\ p = NewPlanner(NoneGiven)
    /\ o = NewRun
    /\ sm = NewManager(NoBaseFile)
    /\ \E others \in SUBSET {SiblingFile(SessionIdOf(1))} :
          fn = [pc |-> "idle", others |-> others, session |-> "",
                path |-> RequestPath(FALSE, <<>>), file_path |-> <<>>, status |-> 0]

NextDownload ==
    \/ ApiCreateSession
    \/ ApiDeleteSession
    \/ ApiDownloadFile

SpecDownload == InitDownload /\ [][NextDownload]_vars

\* One designer designing the slides of a plan, all of them or some, in any
\* order.
\*   dd        the designer and the locals of its design_slide call
\*   todo      the slides not designed yet
\*   messages  the conversation the agent object holds
\*   shown     the conversation the generator was shown at the latest call
InitConversation ==
    /\ mode = "conversation"
    /\ d = NewDesigner(NoneGiven)
    /\ p = NewPlanner(NoneGiven)
    /\ o = NewRun
    /\ sm = NewManager(NoBaseFile)
    /\ fn = [dd |-> NewDesigner(NoneGiven), todo |-> PlanSlideIds,
             messages |-> <<>>, shown |-> <<>>]

NextConversation ==
    \/ ConversationBeginSlide
    \/ ConversationAttempt
    \/ ConversationExhausted

SpecConversation == InitConversation /\ [][NextConversation]_vars

\* A generation run of the streaming service on a session, interleaved
\* with upload and delete requests on that session.
InitService ==
    /\ mode = "service"
    /\ d = NewDesigner(NoneGiven)
    /\ p = NewPlanner(NoneGiven)
    /\ o = NewRun
    /\ sm = CreateSession(NewManager(NoBaseFile))
    /\ fn = [runs |-> [r \in RunIds |-> NewServiceRun], outputs |-> EmptyDict]

NextService ==
    \/ ServiceStart
    \/ ServicePlan
    \/ ServiceDesignSlide
    \/ ServiceBuild
    \/ ServiceUploadImage
    \/ ServiceDeleteImage

SpecService == InitService /\ [][NextService]_vars

\* Generation runs of the streaming service on one session, started at the
\* same time or one after the other, while the clock runs.
InitRuns ==
    /\ mode = "runs"
    /\ d = NewDesigner(NoneGiven)
    /\ p = NewPlanner(NoneGiven)
    /\ o = NewRun
    /\ sm = CreateSession(NewManager(NoBaseFile))
    /\ fn = [runs |-> [r \in RunIds |-> NewServiceRun], outputs |-> EmptyDict]

NextRuns ==
    \/ ServiceStart
    \/ ServicePlan
    \/ ServiceDesignSlide
    \/ ServiceBuild
    \/ ServiceTick

SpecRuns == InitRuns /\ [][NextRuns]_vars

\* The synchronous and the streaming pipeline side by side on one plan,
\* with the same design outcomes and the same render outcome.
InitPair ==
    /\ mode = "pair"
    /\ d = NewDesigner(NoneGiven)
    /\ p = NewPlanner(NoneGiven)
    /\ o = NewRun
    /\ sm = NewManager(NoBaseFile)
    /\ \E n \in 1..(MaxSlides + 1) :
          fn = [pc |-> "designing", n |-> n, i |-> 0, outcomes |-> <<>>,
                sync |-> NewRun, stream |-> NewRun, render |-> "",
                success |-> FALSE, sync_count |-> 0,
                complete |-> FALSE, stream_count |-> 0]

NextPair == PairSlide \/ PairFinish

SpecPair == InitPair /\ [][NextPair]_vars

\* A generation run: synchronous, streaming, or the command line of main.py;
\* the orchestrator constructs its planner and its designer without
\* max_retries.
Init ==
    /\ mode \in {"sync", "stream", "cli"}
    /\ d = NewDesigner(NoneGiven)
    /\ p = NewPlanner(NoneGiven)
    /\ o = NewRun
    /\ sm = NewManager(NoBaseFile)
    /\ fn = NoCall

Next ==
    \/ SyncStart
    \/ SyncCatalogLoaded
    \/ SyncCatalogFailed
    \/ SyncPlanFailed
    \/ SyncPlanReturned
    \/ SyncBeginSlide
    \/ SyncEndSlide
    \/ SyncNoSlides
    \/ SyncBuild
    \/ StreamStart
    \/ StreamPlanFailed
    \/ StreamPlanReturned
    \/ StreamSetupRaises
    \/ StreamSavePlanRaises
    \/ StreamBeginSlide
    \/ StreamEndSlide
    \/ StreamNoSlides
    \/ StreamBuild
    \/ CliGenerate
    \/ CliRender
    \/ PlanAttempt
    \/ PlanAttemptRaises
    \/ DesignAttempt
    \/ DesignAttemptRaises
    \/ DesignExhausted

Spec == Init /\ [][Next]_vars

\* ------------------------------------------------- claims: design_slide

\* The errors the checklist gives on the html extracted from attempt k of
\* the running design_slide call.
ErrorsOfAttempt(k) ==
    ValidateHtml(ExtractHtml(d.log[k].response), d.slide_id)

\* The attempts of the running call that answered, in order.
Answered == 1..Len(d.log)

\* C1: whenever design_slide has returned a result with validation_passed =
\* TRUE, the checklist validator on the returned html_content of that slide
\* gives no error, and the result's validation_errors is empty.
C1_PassedOnlyIfChecklistHolds ==
    (d.pc = "returned" /\ d.result.validation_passed) =>
        /\ ValidateHtml(d.result.html_content, d.result.slide_id) = <<>>
        /\ d.result.validation_errors = <<>>
        /\ d.result.slide_id = d.slide_id

\* C1 witness: a result that passed on a retry.
C1_Witness ==
    /\ d.pc = "returned"
    /\ d.result.validation_passed
    /\ d.attempt = 2

\* C2 (as claimed): once design_slide has returned, the number of generator
\* calls is the index of the first attempt that validates, or max_retries if
\* none does, and it never exceeds the max_retries the agent was given.
C2_CallsWithinGivenMaxRetries ==
    (d.pc = "returned" /\ ~d.given.none) =>
        /\ d.attempt <= d.given.value
        /\ d.result.validation_passed =>
              /\ ErrorsOfAttempt(d.attempt) = <<>>
              /\ \A k \in 1..(d.attempt - 1) : ErrorsOfAttempt(k) # <<>>
        /\ ~d.result.validation_passed => d.attempt = d.given.value

\* C3: when design_slide returns validation_passed = FALSE, every one of the
\* max_retries attempts was made and failed, html_content is the html
\* extracted from the last response, and validation_errors is the non-empty
\* error list of that html; and when every one of the max_retries attempts
\* has failed, the call returns such a result.
C3_FailedResultIsLastAttempt ==
    /\ (d.pc = "returned" /\ ~d.result.validation_passed) =>
          /\ d.attempt = d.max_retries
          /\ Len(d.log) = d.max_retries
          /\ \A k \in Answered : ErrorsOfAttempt(k) # <<>>
          /\ d.result.html_content = ExtractHtml(d.log[Len(d.log)].response)
          /\ d.result.validation_errors = ErrorsOfAttempt(Len(d.log))
          /\ d.result.validation_errors # <<>>
    /\ (/\ d.pc \in {"returned", "raised"}
        /\ Len(d.log) >= 1
        /\ Len(d.log) = d.max_retries
        /\ \A k \in Answered : ErrorsOfAttempt(k) # <<>>) =>
          (d.pc = "returned" /\ ~d.result.validation_passed)

\* C3 witness: a failed result whose last html differs from the first and
\* whose last errors differ from the first.
C3_Witness ==
    /\ d.pc = "returned"
    /\ ~d.result.validation_passed
    /\ Len(d.log) = DEFAULT_MAX_RETRIES
    /\ ExtractHtml(d.log[1].response) # d.result.html_content
    /\ ErrorsOfAttempt(1) # d.result.validation_errors

\* C4 (as claimed): attempt 1 sends the design request, and every later
\* attempt k sends a retry message with the slide id that carries the
\* errors accumulated over the attempts 1..k-1.
C4_RetryCarriesAccumulatedErrors ==
    \A k \in 1..Len(d.sent) :
        IF k = 1 THEN d.sent[k] = DesignRequest(d.slide_id)
        ELSE /\ d.sent[k].kind = "retry"
             /\ d.sent[k].slide_id = d.slide_id
             /\ Range(d.sent[k].errors) =
                    UNION {Range(ErrorsOfAttempt(j)) : j \in 1..(k - 1)}

\* C4 (amended): attempt 1 sends the design request; every later attempt k
\* sends only a retry message with the slide id and the error list of
\* attempt k-1 alone; the design request is never sent again.
C4_RetryCarriesPreviousErrors ==
    \A k \in 1..Len(d.sent) :
        IF k = 1 THEN d.sent[k] = DesignRequest(d.slide_id)
        ELSE /\ d.sent[k] = RetryMessage(ErrorsOfAttempt(k - 1), d.slide_id)
             /\ d.sent[k].kind # "request"

\* C4 witness: a third attempt was sent after two attempts with different
\* errors.
C4_Witness ==
    /\ Len(d.sent) = 3
    /\ Range(ErrorsOfAttempt(1)) \ Range(ErrorsOfAttempt(2)) # {}

\* C5 (as claimed): the retry loop itself never raises: design_slide ends
\* with a result unless the generator call raised.
C5_LoopNeverRaises ==
    d.pc = "raised" => d.exc = "GeneratorError"

\* ----------------------------------------------- claims: generation runs

\* The names of the events yielded so far.
EventNames == {o.events[k].event : k \in 1..Len(o.events)}

\* C6 (as claimed): a synchronous run is reported with success = FALSE only
\* if no slide was designed or the render step failed.
C6_FailsOnlyWithoutSlidesOrRender ==
    (mode = "sync" /\ o.pc = "done" /\ ~o.result.success) =>
        \/ o.html_files = <<>>
        \/ ~o.build_result.success

ConverterInput(k) == o.converter_runs[k].input

C10_ConverterExitCodeFailsRun ==
    (mode = "sync" /\ o.pc = "done") =>
        \A k \in 1..Len(o.converter_runs) :
            o.converter_runs[k].outcome.kind = "nonzero" =>
                /\ ~o.result.success
                /\ ~o.result.has_pptx
                /\ o.result.errors # <<>>
                /\ \E e \in Range(o.result.errors) :
                      /\ e.text = "Converter failed"
                      /\ e.arg = o.converter_runs[k].outcome.stderr

\* C10 witness: the converter exits with a code other than 0 after every
\* slide of the plan was designed and passed.
C10_Witness ==
    /\ mode = "sync"
    /\ o.pc = "done"
    /\ Len(o.converter_runs) = 1
    /\ o.converter_runs[1].outcome.kind = "nonzero"
    /\ Len(o.html_files) = MaxSlides
    /\ o.warnings = <<>>

\* ------------------------------------------------- claims: progress stream

\* The events yielded so far without the sentinel items.
NotSentinel(e) == e # DONE

StreamEvents == SelectSeq(o.events, NotSentinel)

TerminalNames == {"generation_complete", "generation_error"}

\* The events before the terminal event.
StageEvents ==
    LET n == Len(StreamEvents)
    IN  IF n > 0 /\ StreamEvents[n].event \in TerminalNames
        THEN SubSeq(StreamEvents, 1, n - 1)
        ELSE StreamEvents

\* Whether event e may stand at position k of a stream for the plan with
\* these slides: the three opening events, planning_complete, for the j-th
\* slide of the plan slide_designing then one outcome event, both with that
\* slide's index, then build_started.
FitsStage(e, k, slides) ==
    LET N == Len(slides)
        j == (k - 3) \div 2
    IN  CASE k = 1 -> e.event = "brief_created"
          [] k = 2 -> e.event = "catalog_loaded"
          [] k = 3 -> e.event = "planning_started"
          [] k = 4 -> e.event = "planning_complete" /\ e.index = N
          [] k >= 5 /\ k <= 4 + 2 * N /\ k % 2 = 1 ->
                e.event = "slide_designing" /\ e.index = slides[j].slide_index
          [] k >= 5 /\ k <= 4 + 2 * N /\ k % 2 = 0 ->
                /\ e.event \in {"slide_complete", "slide_error"}
                /\ e.index = slides[j].slide_index
          [] k = 5 + 2 * N -> e.event = "build_started"
          [] OTHER -> FALSE

\* C12: the events of a stream follow the state machine of the run:
\* brief_created, catalog_loaded, planning_started, planning_complete, for
\* each slide in plan order slide_designing and then exactly one of
\* slide_complete and slide_error, build_started after the outcome of the
\* last slide, and last a terminal event; a stream that ends early ends
\* with generation_error after a prefix of that order, and
\* generation_complete comes only after build_started.
C12_EventsFollowStateMachine ==
    mode = "stream" =>
        /\ \A k \in 1..Len(StageEvents) :
              FitsStage(StageEvents[k], k, o.slide_plan.slides)
        /\ \A k \in 1..(Len(StreamEvents) - 1) :
              StreamEvents[k].event \notin TerminalNames
        /\ "generation_complete" \in EventNames =>
              Len(StageEvents) = 5 + 2 * Len(o.slide_plan.slides)
        /\ (o.pc = "done" /\ "build_started" \in EventNames) =>
              Len(StreamEvents) = 6 + 2 * Len(o.slide_plan.slides)

\* C12 witness: a stream over a full plan in which one slide was designed
\* and another raised, and the build succeeded.
C12_Witness ==
    /\ mode = "stream"
    /\ o.pc = "done"
    /\ Len(o.slide_plan.slides) = MaxSlides
    /\ {"slide_complete", "slide_error", "build_started", "generation_complete"}
          \subseteq EventNames

\* C13: a stream that is over has exactly one terminal event and exactly
\* one sentinel item, the sentinel is its last item and the terminal event
\* the item before it, whether the run ended by plan failure, without any
\* designed slide, by a build failure or success, or by an unexpected
\* exception; a stream that is not over has neither.
C13_StreamEndsWithSentinel ==
    mode = "stream" =>
        LET n == Len(o.events)
            sentinels == {k \in 1..n : o.events[k] = DONE}
            terminals == {k \in 1..n : o.events[k].event \in TerminalNames}
        IN  IF o.pc = "done"
            THEN /\ sentinels = {n}
                 /\ terminals = {n - 1}
                 /\ n >= 2
            ELSE sentinels = {} /\ terminals = {}

\* C13 witness: a stream ended by an exception before any event, and ends
\* with the sentinel.
C13_Witness ==
    /\ mode = "stream"
    /\ o.pc = "done"
    /\ Len(o.events) = 2
    /\ o.events[1].event = "generation_error"
    /\ o.events[2] = DONE

\* The messages a finished run hands to its caller: the errors and the
\* limitations of the synchronous result, or everything some event of the
\* stream carries.
Surfaced ==
    IF mode = "sync"
    THEN Range(o.result.errors) \cup Range(o.result.limitations)
    ELSE UNION {Range(o.events[k].payload) : k \in 1..Len(o.events)}

\* C14: once a synchronous or streaming run is over, every slide whose
\* design raised and every slide whose design came back with
\* validation_passed = FALSE has its failure among the messages the caller
\* gets, whatever the build did: an entry of errors or limitations, or the
\* payload of some event.
C14_NoSlideFailureDropped ==
    (mode \in {"sync", "stream"} /\ o.pc = "done") =>
        \A k \in 1..Len(o.design_log) :
            LET entry == o.design_log[k]
                sid == entry.slide.slide_id
            IN  /\ entry.outcome = "raised" =>
                      \E e \in Surfaced :
                          e.text = "Failed to design slide" /\ e.slide = sid
                /\ entry.outcome = "failed" =>
                      \A err \in Range(ValidateHtml(entry.html, sid)) :
                          [err EXCEPT !.slide = sid] \in Surfaced

\* ---------------------------------------------------- claims: the renderer

\* The renderer outcomes that are failures of the renderer itself.
RendererFailures == {"nonzero", "no_output", "timeout"}

\* C11: a renderer that exits with a code other than 0, exits with 0 without
\* the output file, or times out gives a failed build with a message, never
\* success and never an escaping exception: a failed BuildResult with errors
\* on the converter-script path, exit code 1 with a message on stderr on the
\* path of main.py; and the renderer is started at most once per run.
C11_RendererFailureIsBuildFailure ==
    /\ Len(o.converter_runs) <= 1
    /\ Len(o.render_runs) <= 1
    /\ o.pc = "done" =>
          /\ \A k \in 1..Len(o.converter_runs) :
                o.converter_runs[k].outcome.kind \in RendererFailures =>
                    /\ ~o.build_result.success
                    /\ o.build_result.errors # <<>>
          /\ \A k \in 1..Len(o.render_runs) :
                o.render_runs[k].outcome.kind \in RendererFailures =>
                    /\ o.process.exc = ""
                    /\ o.process.exit_code # 0
                    /\ o.process.stderr # <<>>

\* ------------------------------------------ claims: sessions and catalogs

\* The catalog object of a registered session.
CatalogOf(m, sid) == m.heap[m.sessions[sid].catalog]

\* What the base catalog is loaded as.
BaseCatalogValue(m) ==
    IF m.base_file.exists THEN m.base_file.catalog ELSE ArtifactCatalog(0, <<>>)

\* Whether everything of session sid is the same in m2 as in m1: the
\* registry entry, the catalog object and the directory.
SameSession(m1, m2, sid) ==
    /\ sid \in DOMAIN m2.sessions
    /\ m2.sessions[sid] = m1.sessions[sid]
    /\ CatalogOf(m2, sid) = CatalogOf(m1, sid)
    /\ m2.dirs[sid] = m1.dirs[sid]

\* Whether nothing of any session differs between m1 and m2.
NothingWritten(m1, m2) ==
    /\ m2.sessions = m1.sessions
    /\ m2.heap = m1.heap
    /\ m2.dirs = m1.dirs

\* C15: the cached base catalog is what the base file holds after every
\* step; a session is created with a catalog equal to the base catalog; and
\* an upload or a deletion on one session leaves every other session's
\* catalog, uploads and directory as they were.
C15_CatalogCopyIsolation ==
    [][/\ sm'.base_ref # 0 => sm'.heap[sm'.base_ref] = BaseCatalogValue(sm')
       /\ (sm'.last.op = "create_session" /\ sm'.uuids # sm.uuids) =>
             /\ CatalogOf(sm', sm'.last.session) = BaseCatalogValue(sm')
             /\ sm'.dirs[sm'.last.session].catalog_file = BaseCatalogValue(sm')
             /\ \A sid \in DOMAIN sm.sessions : SameSession(sm, sm', sid)
       /\ sm'.last.op \in {"upload", "delete_image"} =>
             \A sid \in DOMAIN sm.sessions \ {sm'.last.session} :
                 SameSession(sm, sm', sid)]_vars

\* C15 witness: a session was created after another session got an upload,
\* over a base catalog that is not empty.
C15_Witness ==
    /\ sm.last.op = "create_session"
    /\ sm.base_file.catalog.artifacts # <<>>
    /\ \E sid \in DOMAIN sm.sessions \ {sm.last.session} :
          sm.sessions[sid].uploaded_images # <<>>

\* What the claim calls an upload that must be rejected.
Disallowed(file) ==
    \/ file.size > MAX_FILE_SIZE
    \/ file.has_name /\ Lower(file.suffix) \notin ALLOWED_EXTENSIONS
    \/ file.content_type # "" /\ file.content_type \notin ALLOWED_MIME_TYPES

\* C16: an upload to a session that is too long, has a suffix that is not
\* allowed or declares a content type that is not allowed is answered with
\* 400, and the uploads directory, the catalog with its artifact_count,
\* uploaded_images and the saved catalog file are as before the request.
C16_RejectedUploadWritesNothing ==
    [][(/\ sm'.last.op = "upload"
        /\ sm'.last.session \in DOMAIN sm.sessions
        /\ Disallowed(sm'.last.file)) =>
            /\ sm'.last.status = 400
            /\ NothingWritten(sm, sm')]_vars

\* C16 witness: an upload that is too long was rejected on a session that
\* already holds an upload.
C16_Witness ==
    /\ sm.last.op = "upload"
    /\ sm.last.status = 400
    /\ sm.last.file.size > MAX_FILE_SIZE
    /\ sm.last.session \in DOMAIN sm.sessions
    /\ sm.dirs[sm.last.session].uploads # {}

\* C17: a deletion that names an id which is not among the session's own
\* uploads is answered with 404 and changes nothing; and after every step
\* each artifact of the base catalog is in the catalog of every session.
C17_OnlyOwnUploadsAreDeleted ==
    [][/\ (/\ sm'.last.op = "delete_image"
           /\ sm'.last.session \in DOMAIN sm.sessions
           /\ sm'.last.artifact
                 \notin Range(sm.sessions[sm'.last.session].uploaded_images)) =>
               /\ sm'.last.status = 404
               /\ NothingWritten(sm, sm')
       /\ \A sid \in DOMAIN sm'.sessions :
             Range(BaseCatalogValue(sm').artifacts)
                 \subseteq Range(CatalogOf(sm', sid).artifacts)]_vars

\* C17 witness: the deletion of a base artifact was refused on a session
\* that has an upload of its own.
C17_Witness ==
    /\ sm.last.op = "delete_image"
    /\ sm.last.status = 404
    /\ sm.last.session \in DOMAIN sm.sessions
    /\ sm.last.artifact \in
          {a.artifact_id : a \in Range(BaseCatalogValue(sm).artifacts)}
    /\ sm.sessions[sm.last.session].uploaded_images # <<>>

\* C18: no two artifacts of a session's catalog have the same artifact_id.
C18_ArtifactIdsUnique ==
    \A sid \in DOMAIN sm.sessions :
        LET artifacts == CatalogOf(sm, sid).artifacts
        IN  \A i, j \in 1..Len(artifacts) :
                artifacts[i].artifact_id = artifacts[j].artifact_id => i = j

\* The registered sessions older than max_age_hours.
OlderThan(m, max_age_hours) ==
    {sid \in DOMAIN m.sessions : m.now - m.sessions[sid].created_at > max_age_hours}

PlanAttemptFails(k) ==
    p.log[k].raised \/ ~ParseSlidePlan(p.log[k].response).ok

\* C9: plan calls the generator at most max_retries times; it returns at the
\* first attempt whose response parses into a valid plan, with that plan
\* and without a further call; and it raises exactly when every one of the
\* max_retries attempts has failed.
C9_PlanRetriesThenRaises ==
    /\ p.attempt = Len(p.log)
    /\ p.attempt <= (IF p.max_retries > 0 THEN p.max_retries ELSE 0)
    /\ \A k \in 1..(Len(p.log) - 1) : PlanAttemptFails(k)
    /\ p.pc = "returned" =>
          /\ Len(p.log) >= 1
          /\ ~PlanAttemptFails(Len(p.log))
          /\ p.result = ParseSlidePlan(p.log[Len(p.log)].response).plan
    /\ p.pc = "raised" =>
          /\ p.attempt = (IF p.max_retries > 0 THEN p.max_retries ELSE 0)
          /\ \A k \in 1..Len(p.log) : PlanAttemptFails(k)
    /\ p.pc = "loop" => \A k \in 1..Len(p.log) : PlanAttemptFails(k)
    /\ (Len(p.log) >= 1 /\ ~PlanAttemptFails(Len(p.log))) => p.pc = "returned"

\* C9 witness: a plan returned by the last attempt allowed, after a call
\* that raised and a response that did not parse.
C9_Witness ==
    /\ p.pc = "returned"
    /\ p.attempt = DEFAULT_MAX_RETRIES
    /\ p.log[1].raised
    /\ ~p.log[2].raised
    /\ Len(p.result.slides) = MaxSlides

\* C19: a plan that plan returns has slide_index values 1..N in list
\* order, without gaps and repeats.
C19_PlanIndicesAreOneToN ==
    p.pc = "returned" =>
        \A i \in 1..Len(p.result.slides) : p.result.slides[i].slide_index = i

\* A response that consists only of a bare HTML document: after white space
\* is stripped it runs from <!DOCTYPE html> through </html> and holds no
\* code fence.
BareDocument(response) ==
    LET r == Strip(response)
    IN  /\ Len(r) >= 2
        /\ r[1] = DOCTYPE
        /\ r[Len(r)] = HTML_CLOSE
        /\ FENCE \notin Range(r)

\* C23: for every response that consists only of a bare HTML document,
\* _extract_html returns the document unchanged up to surrounding white
\* space, and _extract_html applied to its own result returns the same
\* document again.
C23_ExtractionLeavesBareDocument ==
    (mode = "extract" /\ fn.pc \in {"extracted", "again"}
       /\ BareDocument(fn.response))
    => /\ fn.html = Strip(fn.response)
       /\ fn.pc = "again" => fn.again = fn.html

\* The result the order of preference names: the content of the first
\* ```html block that is closed by a later ```, else the content of the
\* first ``` block that is closed, else the span from <!DOCTYPE html>
\* through the next </html>, else the stripped response.
Preferred(response) ==
    LET r == Strip(response)
        h == FindHtmlFence(r)
        hEnd == IF h = 0 THEN 0 ELSE FindFrom(r, h + 2, {FENCE})
        g == FindFrom(r, 1, {FENCE})
        gEnd == IF g = 0 THEN 0 ELSE FindFrom(r, g + 1, {FENCE})
        dt == FindFrom(r, 1, {DOCTYPE})
        dtEnd == IF dt = 0 THEN 0 ELSE FindFrom(r, dt, {HTML_CLOSE})
    IN  CASE h # 0 /\ hEnd # 0 -> Strip(SubSeq(r, h + 2, hEnd - 1))
          [] ~(h # 0 /\ hEnd # 0) /\ g # 0 /\ gEnd # 0 ->
                Strip(SubSeq(r, g + 1, gEnd - 1))
          [] ~(h # 0 /\ hEnd # 0) /\ ~(g # 0 /\ gEnd # 0) /\ dt # 0 /\ dtEnd # 0 ->
                Strip(SubSeq(r, dt, dtEnd))
          [] OTHER -> r

\* C24: _extract_html returns the content of a fenced html block if the
\* response has one, otherwise the content of a fenced generic block,
\* otherwise the span from <!DOCTYPE html> through </html>, otherwise the
\* raw response; an unterminated fence falls through to the next rule.
C24_ExtractionOrderOfPreference ==
    (mode = "extract" /\ fn.pc \in {"extracted", "again"})
    => fn.html = Preferred(fn.response)

\* C26: the validator accepts a document only if the element that carries
\* id="slide-root" itself carries data-slide-id equal to the slide's id;
\* identifier and data attribute on different elements, or a root whose data
\* attribute is absent or names another slide, yield a validation error.
C26_RootCarriesOwnSlideId ==
    (mode = "validate" /\ fn.pc = "validated" /\ fn.errors = <<>>)
    => \E i \in 1..Len(fn.html) : fn.html[i] = RootDiv(fn.slide_id)

\* The artifact ids of a catalog argument (none when no catalog is given).
SuppliedIds(catalog) ==
    IF catalog.none THEN {}
    ELSE {catalog.artifacts[k].artifact_id : k \in 1..Len(catalog.artifacts)}

\* C25: the first-attempt design request carries resolved artifact data
\* (asset path or table markup) for every content block whose artifact_id is
\* in the supplied catalog, and none for a block whose artifact_id is not in
\* it or when no catalog is supplied.
C25_ArtifactResolution ==
    (mode = "request" /\ fn.pc = "formatted")
    => \A i \in 1..Len(fn.blocks) :
          LET carried == fn.blocks_info[i].image_path.has
                         \/ fn.blocks_info[i].html_table.has
          IN  carried <=> (/\ fn.blocks[i].artifact_id # ""
                           /\ fn.blocks[i].artifact_id \in SuppliedIds(fn.catalog))

\* The ids of the artifacts of a catalog that were uploaded by the user.
UserUploadedIds(catalog) ==
    {a.artifact_id : a \in {b \in Range(catalog.artifacts) :
                               "user_upload" \in Range(b.tags)}}

\* C28: whatever uploads (accepted or rejected) and deletions (done or
\* refused) a session has seen, its artifact_count equals the length of its
\* artifacts list and uploaded_images holds exactly the ids of the
\* user-uploaded artifacts still in the catalog.
C28_CatalogBookkeeping ==
    mode = "session"
    => \A sid \in DOMAIN sm.sessions :
          LET catalog == CatalogOf(sm, sid)
          IN  /\ catalog.artifact_count = Len(catalog.artifacts)
              /\ Range(sm.sessions[sid].uploaded_images) = UserUploadedIds(catalog)

\* An upload was deleted from a session that still holds another upload and
\* the artifacts of the base catalog.
C28_Witness ==
    /\ mode = "session"
    /\ sm.last.op = "delete_image"
    /\ sm.last.status = 200
    /\ sm.last.session \in DOMAIN sm.sessions
    /\ UserUploadedIds(CatalogOf(sm, sm.last.session)) # {}
    /\ Len(CatalogOf(sm, sm.last.session).artifacts) >= 2

\* C27: download_file sends only files inside the directory tree of the
\* session of the request: a file outside session_dir (reached through ..,
\* in another session, or in a directory whose name begins with the
\* session directory's name) is never sent.
C27_DownloadStaysInSessionDir ==
    (mode = "download" /\ fn.pc = "answered" /\ fn.status = 200)
    => /\ IsPrefix(SessionDir(fn.session), fn.file_path)
       /\ Len(fn.file_path) > Len(SessionDir(fn.session))

\* C22: the conversation the generator sees while designing slide k holds
\* only slide k's design request, retry messages and responses, whatever
\* slides were designed before it.
C22_DesignSeesOnlyItsOwnSlide ==
    mode = "conversation"
    => \A k \in 1..Len(fn.shown) : fn.shown[k].slide = fn.dd.slide_id

\* C21: the planner and every slide design of one run observe the same
\* artifacts, whatever requests are served in between.
C21_CatalogReadOnlyDuringRun ==
    mode \in {"service", "runs"}
    => \A r \in RunIds :
          \A j, k \in 1..Len(fn.runs[r].observed) :
              fn.runs[r].observed[j] = fn.runs[r].observed[k]

\* C30: two runs started on one session write into distinct output
\* directories: no file of a run is overwritten by another run, and the
\* converter of a run is given only files that run wrote.
C30_RunsHaveDistinctOutputDirs ==
    mode \in {"service", "runs"}
    => /\ \A r1, r2 \in RunIds :
             (r1 # r2 /\ fn.runs[r1].pc # "idle" /\ fn.runs[r2].pc # "idle")
             => fn.runs[r1].output_name # fn.runs[r2].output_name
       /\ \A r \in RunIds : \A f \in fn.runs[r].rendered : f.run = r

\* C29: for the same plan, the same per-slide design outcomes and the same
\* render outcome, generate_presentation returns success = true exactly
\* when generate_presentation_stream emits generation_complete, and the
\* slide counts they report are the same.
C29_PipelinesAgree ==
    (mode = "pair" /\ fn.pc = "done")
    => /\ fn.success <=> fn.complete
       /\ fn.sync_count = fn.stream_count

====
